---- MODULE Spec2Model ----
(***************************************************************************)
(* Model of the recursive action scanner: reference parsing, the static    *)
(* ActionCache, Action.scanDependencies (an async, memoised, depth-bounded *)
(* walk) and RecursiveActionScanner.scanActionList / generateReport.       *)
(*                                                                         *)
(* JavaScript strings are sequences of one-character strings.  JavaScript  *)
(* values that may be undefined, null or an object are records with a tag  *)
(* field t.  An Action instance is its index in ActionCache.actions (every *)
(* constructor call registers the new instance, so the index is the object *)
(* identity).  A Set or Map is a sequence in insertion order.              *)
(***************************************************************************)
EXTENDS Integers, Sequences, FiniteSets, TLC

VARIABLES
    manifests,  \* the repository contents the Octokit client answers from
    actions,    \* ActionCache.actions (static: one per process)
    tasks,      \* the scanActionList invocations of the process, in start order
    lookups,    \* history: the Action.fromUsesString calls made so far
    argv,       \* the argument given to --max-depth on the command line
    pr,         \* the pull request a scan-pr command reads
    wf          \* the local composite action scan of a scan-repo command

vars == <<manifests, actions, tasks, lookups, argv, pr, wf>>

----------------------------------------------------------------------------
(* Bounds of the model *)

MaxRoots == 2
MaxUses == 1
MaxSteps == 2
MaxRuns == 2
MaxLookups == 3
MaxMixed == 3
MaxLen == 7
MaxDigits == 2
MaxLines == 2

----------------------------------------------------------------------------
(* JavaScript values *)

Undefined == [t |-> "undefined"]
Null == [t |-> "null"]
Str(s) == [t |-> "str", s |-> s]
Num(n) == [t |-> "num", n |-> n]
NaN == [t |-> "nan"]

Max(S) == CHOOSE x \in S : \A y \in S : y <= x
Min(S) == CHOOSE x \in S : \A y \in S : x <= y

\* s.slice(i-1, j) for 1-based inclusive positions
Slice(s, i, j) == [k \in 1..(j - i + 1) |-> s[i + k - 1]]

\* Set.prototype.add on an insertion-ordered set
SetAdd(seq, x) == IF \E k \in 1..Len(seq) : seq[k] = x THEN seq ELSE Append(seq, x)

RECURSIVE SetAddAll(_, _)
SetAddAll(seq, xs) == IF xs = <<>> THEN seq ELSE SetAddAll(SetAdd(seq, Head(xs)), Tail(xs))

MapHas(m, k) == \E i \in 1..Len(m) : m[i].key = k

\* a list that takes every entry, as an array push would
MapPush(m, k, v) == Append(m, [key |-> k, value |-> v])

\* Map.prototype.set: an existing key keeps its position
MapSet(m, k, v) ==
    IF MapHas(m, k)
    THEN [i \in 1..Len(m) |-> IF m[i].key = k THEN [key |-> k, value |-> v] ELSE m[i]]
    ELSE Append(m, [key |-> k, value |-> v])

----------------------------------------------------------------------------
(* utils.mjs: ACTION_NAME_REGEX                                            *)
(*   /^(?<org>[^\/]+)\/(?<action>[^\/]+)(?:\/(?<subPath>[^@]+))?@(?<ref>.+)$/ *)

LineTerminators == {"\n", "\r"}

NoneOf(s, i, j, chars) == \A k \in i..j : s[k] \notin chars

\* Every way the pattern can be laid over s: org = s[1..a], action =
\* s[a+2..b], then either "/" subPath "@" with subPath = s[b+2..c], or "@"
\* directly (c = 0); ref is the rest and is not empty.
RegexParses(s) ==
    LET n == Len(s)
        orgs == {a \in 1..(n - 1) : NoneOf(s, 1, a, {"/"}) /\ s[a + 1] = "/"}
        acts(a) == {b \in (a + 2)..(n - 1) : NoneOf(s, a + 2, b, {"/"})}
        subs(b) == {c \in (b + 2)..(n - 1) :
                       /\ s[b + 1] = "/"
                       /\ NoneOf(s, b + 2, c, {"@"})
                       /\ s[c + 1] = "@"}
        refOk(k) == k <= n /\ NoneOf(s, k, n, LineTerminators)
    IN  UNION {UNION {
            (IF s[b + 1] = "@" /\ refOk(b + 2) THEN {[a |-> a, b |-> b, c |-> 0]} ELSE {})
            \cup {[a |-> a, b |-> b, c |-> c] : c \in {d \in subs(b) : refOk(d + 2)}}
            : b \in acts(a)} : a \in orgs}

\* The backtracking order of the engine: each quantifier is greedy, so the
\* longest org is tried first, then the longest action, then the optional
\* group present before absent, then the longest subPath.
RegexPrefers(p, q) ==
    \/ p.a > q.a
    \/ p.a = q.a /\ p.b > q.b
    \/ p.a = q.a /\ p.b = q.b /\ p.c > q.c

\* usesString.match(ACTION_NAME_REGEX): null, or the named groups
RegexMatch(s) ==
    LET ps == RegexParses(s)
    IN  IF ps = {}
        THEN Null
        ELSE LET p == CHOOSE x \in ps : \A y \in ps : y = x \/ RegexPrefers(x, y)
             IN  [t |-> "match",
                  org |-> Slice(s, 1, p.a),
                  action |-> Slice(s, p.a + 2, p.b),
                  subPath |-> IF p.c = 0 THEN Undefined ELSE Str(Slice(s, p.b + 2, p.c)),
                  ref |-> Slice(s, (IF p.c = 0 THEN p.b ELSE p.c) + 2, Len(s))]

----------------------------------------------------------------------------
(* actions.mjs: ActionCache and Action *)

\* new Action(owner, repo, ref, subPath): the fields the constructor sets
NewAction(owner, repo, ref, subPath) ==
    [owner |-> owner, repo |-> repo, ref |-> ref, subPath |-> subPath,
     dependencies |-> <<>>, scanned |-> FALSE, actionYaml |-> Undefined]

\* a comparison that forgets the subPath
SameActionNoSubPath(a, owner, repo, ref, subPath) ==
    /\ a.owner = owner
    /\ a.repo = repo
    /\ a.ref = ref

\* the comparison inside ActionCache.find
SameAction(a, owner, repo, ref, subPath) ==
    /\ a.owner = owner
    /\ a.repo = repo
    /\ a.ref = ref
    /\ a.subPath = subPath

\* a find that never hits
ActionCacheFindMiss(acts, owner, repo, ref, subPath) == 0

\* ActionCache.find: the first registered instance that matches; 0 is undefined
ActionCacheFind(acts, owner, repo, ref, subPath) ==
    LET hits == {i \in 1..Len(acts) : SameAction(acts[i], owner, repo, ref, subPath)}
    IN  IF hits = {} THEN 0 ELSE Min(hits)

\* ActionCache.findOrCreate; the constructor registers the new instance
FindOrCreate(acts, owner, repo, ref, subPath) ==
    LET found == ActionCacheFind(acts, owner, repo, ref, subPath)
    IN  IF found # 0
        THEN [actions |-> acts, node |-> found]
        ELSE [actions |-> Append(acts, NewAction(owner, repo, ref, subPath)),
              node |-> Len(acts) + 1]

InvalidReference(s) == <<"Invalid action reference: ">> \o s

\* Action.fromUsesString: throws on no match, else the cached or new instance
FromUsesString(acts, s) ==
    LET m == RegexMatch(s)
    IN  IF m = Null
        THEN [threw |-> TRUE, message |-> InvalidReference(s), actions |-> acts, node |-> 0]
        ELSE LET r == FindOrCreate(acts, m.org, m.action, m.ref,
                                   IF m.subPath = Undefined THEN <<>> ELSE m.subPath.s)
             IN  [threw |-> FALSE, message |-> <<>>, actions |-> r.actions, node |-> r.node]

\* get fullName
FullName(a) ==
    a.owner \o <<"/">> \o a.repo \o <<"@">> \o a.ref
        \o (IF a.subPath # <<>> THEN <<"/">> \o a.subPath ELSE <<>>)

\* get url
Url(a) ==
    <<"https://github.com/">> \o a.owner \o <<"/">> \o a.repo \o <<"/tree/">> \o a.ref
        \o (IF a.subPath # <<>> THEN <<"/">> \o a.subPath ELSE <<>>)

----------------------------------------------------------------------------
(* The documents YAML.parse returns.  A mapping with the keys jobs and runs *)
(* is [t |-> "map", jobs |-> J, runs |-> R]; an absent key is Undefined.    *)
(* jobs is a mapping, given as the sequence of its values in key order.     *)
(* Any other truthy value (a string, a number, a mapping where a sequence   *)
(* is expected) is Other.                                                   *)

Other == [t |-> "other"]
YamlSeq(items) == [t |-> "seq", items |-> items]
YamlMap(entries) == [t |-> "map", entries |-> entries]
Step(uses) == [t |-> "map", uses |-> uses]
Job(steps) == [t |-> "map", steps |-> steps]
Doc(jobs, runs) == [t |-> "map", jobs |-> jobs, runs |-> runs]

\* JavaScript truthiness of a modelled value
Truthy(v) ==
    CASE v.t = "undefined" -> FALSE
      [] v.t = "null" -> FALSE
      [] v.t = "str" -> v.s # <<>>
      [] v.t = "num" -> v.n # 0
      [] v.t = "nan" -> FALSE
      [] OTHER -> TRUE

\* container.steps where container is a job or runs: undefined on a value
\* without that key, a TypeError on null
StepsOf(container) ==
    CASE container.t = "map" -> [threw |-> FALSE, value |-> container.steps]
      [] container.t = "null" -> [threw |-> TRUE, value |-> Undefined]
      [] OTHER -> [threw |-> FALSE, value |-> Undefined]

\* for (... of steps.entries()): the steps of a sequence; calling .entries on
\* a truthy value that is no sequence is a TypeError
StepEntries(steps) ==
    CASE ~Truthy(steps) -> [items |-> <<>>, threw |-> FALSE]
      [] steps.t = "seq" -> [items |-> steps.items, threw |-> FALSE]
      [] OTHER -> [items |-> <<>>, threw |-> TRUE]

\* the loop over Object.entries(yamlContent.jobs): what is yielded, and
\* whether the generator then throws
RECURSIVE JobSteps(_)
JobSteps(jobList) ==
    IF jobList = <<>>
    THEN [items |-> <<>>, threw |-> FALSE]
    ELSE LET st == StepsOf(Head(jobList))
             here == IF st.threw THEN [items |-> <<>>, threw |-> TRUE]
                     ELSE StepEntries(st.value)
             rest == JobSteps(Tail(jobList))
         IN  IF here.threw
             THEN here
             ELSE [items |-> here.items \o rest.items, threw |-> rest.threw]

\* utils.mjs actionSteps: the steps the generator yields, in order, and
\* whether it ends by throwing a TypeError
ActionSteps(yamlContent) ==
    LET jobs == IF yamlContent.t = "map" THEN yamlContent.jobs ELSE Undefined
        runs == IF yamlContent.t = "map" THEN yamlContent.runs ELSE Undefined
        fromJobs == IF Truthy(jobs)
                    THEN JobSteps(IF jobs.t = "map" THEN jobs.entries ELSE <<>>)
                    ELSE [items |-> <<>>, threw |-> FALSE]
        runsSteps == IF runs.t \in {"undefined", "null"}
                     THEN Undefined
                     ELSE StepsOf(runs).value
        fromRuns == StepEntries(runsSteps)
    IN  IF fromJobs.threw
        THEN fromJobs
        ELSE [items |-> fromJobs.items \o fromRuns.items, threw |-> fromRuns.threw]

\* step?.uses
UsesOf(step) == IF step.t = "map" THEN step.uses ELSE Undefined

----------------------------------------------------------------------------
(* What octokit.rest.repos.getContent answers for one path of one action:  *)
(* it throws (404, rate limit, network), or returns data that is not a     *)
(* file, or a file whose content YAML.parse turns into a document or       *)
(* rejects.                                                                *)

Throws == [t |-> "throws"]
NotFile == [t |-> "notfile"]
File(yaml) == [t |-> "file", yaml |-> yaml]
ParseError == [t |-> "parseError"]

Identity(a) == [owner |-> a.owner, repo |-> a.repo, ref |-> a.ref, subPath |-> a.subPath]

\* getContent({owner, repo, path, ref}) for possiblePaths[path]
GetContent(a, path) ==
    IF Identity(a) \in DOMAIN manifests THEN manifests[Identity(a)][path] ELSE Throws

----------------------------------------------------------------------------
(* Execution state.  A configuration c is [actions, task]: the static cache *)
(* and one scanActionList invocation.  task.stack holds the suspended       *)
(* scanDependencies calls of the invocation, innermost last; a frame's pc   *)
(* is the await it is suspended at:                                         *)
(*   "fetch"   getActionYaml awaits getContent for possiblePaths[path]      *)
(*   "yaml"    scanDependencies awaits getActionYaml                        *)
(*   "child"   scanDependencies awaits the dependency's scanDependencies    *)
(*   "return"  the call has returned ret; its caller has not yet resumed    *)
(*   "throw"   the call has thrown error; its caller has not yet resumed    *)
(* Everything between two awaits runs without interruption.  task.fetchLog  *)
(* lists the getContent requests sent, as <<action, path>>; task.errorLog   *)
(* lists the references for which scanActionList logged "Failed to scan".   *)

DefaultMaxDepth == 5
\* a getActionYaml that gives up after the first file name
OnlyActionYml == <<"action.yml">>

\* possiblePaths of getActionYaml, without the subPath prefix
PossiblePaths == <<"action.yml", "action.yaml">>

NumPaths == Len(PossiblePaths)

TypeError == <<"TypeError">>

Top(c) == c.task.stack[Len(c.task.stack)]

SetTop(c, f) == [c EXCEPT !.task.stack[Len(c.task.stack)] = f]

Push(c, f) == [c EXCEPT !.task.stack = Append(c.task.stack, f)]

Pop(c) == [c EXCEPT !.task.stack = SubSeq(c.task.stack, 1, Len(c.task.stack) - 1)]

\* scanDependencies line 95: return at once, without expanding
\* a guard that looks at the scanned flag only
ReturnsIfScanned(a, maxDepth, currentDepth) == a.scanned

\* a guard that looks at the depth only
ReturnsIfDeep(a, maxDepth, currentDepth) == currentDepth >= maxDepth

ReturnsAtOnce(a, maxDepth, currentDepth) == a.scanned \/ currentDepth >= maxDepth

\* a loop body that drops the direct dependency
AddDependencySkipped(deps, node) == deps

\* a loop body that drops what the nested scan returned
AddNestedSkipped(deps, nestedDeps) == deps

\* a loop body that adds the first registered node in place of the child
AddDependencyFirst(deps, node) == SetAdd(deps, 1)

\* this.dependencies.add(dependencyAction)
AddDependency(deps, node) == SetAdd(deps, node)

\* only the first nested dependency is added
AddNestedFirstOnly(deps, nestedDeps) ==
    IF nestedDeps = <<>> THEN deps ELSE SetAdd(deps, Head(nestedDeps))

\* this.dependencies = new Set(nestedDeps)
AddNestedReplacing(deps, nestedDeps) == nestedDeps

\* nestedDeps.forEach(dep => this.dependencies.add(dep))
AddNested(deps, nestedDeps) == SetAddAll(deps, nestedDeps)

\* the flag left for a statement after the await
MarkDeferred(a) == a

\* this.scanned = true
MarkScanned(a) == [a EXCEPT !.scanned = TRUE]

\* node.scanDependencies(maxDepth, currentDepth), run up to its first await:
\* the early return, or scanned = true and getActionYaml up to the first
\* getContent (or its own early return on a cached document)
ScanDependencies(c, node, maxDepth, currentDepth) ==
    LET a == c.actions[node]
        f == [node |-> node, maxDepth |-> maxDepth, currentDepth |-> currentDepth,
              pc |-> "return", path |-> 1, ret |-> a.dependencies, error |-> <<>>,
              items |-> <<>>, threw |-> FALSE]
    IN  IF ReturnsAtOnce(a, maxDepth, currentDepth)
        THEN Push(c, f)
        ELSE LET marked == [c EXCEPT !.actions[node] = MarkScanned(@)]
             IN  IF a.actionYaml # Undefined
                 THEN Push(marked, [f EXCEPT !.pc = "yaml"])
                 ELSE Push([marked EXCEPT !.task.fetchLog = Append(@, <<node, 1>>)],
                           [f EXCEPT !.pc = "fetch"])

\* getActionYaml resumed after getContent for possiblePaths[path]
GetActionYamlResume(c) ==
    LET f == Top(c)
        data == GetContent(c.actions[f.node], f.path)
    IN  IF data.t = "file" /\ data.yaml # ParseError
        THEN SetTop([c EXCEPT !.actions[f.node].actionYaml = data.yaml],
                    [f EXCEPT !.pc = "yaml"])
        ELSE IF f.path < NumPaths
        THEN SetTop([c EXCEPT !.task.fetchLog = Append(@, <<f.node, f.path + 1>>)],
                    [f EXCEPT !.path = f.path + 1])
        ELSE SetTop([c EXCEPT !.actions[f.node].actionYaml = Null],
                    [f EXCEPT !.pc = "yaml"])

\* a try block around the whole loop: the first rejected uses ends the loop
CatchUsesAbort(c) == SetTop(c, [Top(c) EXCEPT !.items = <<>>])

\* the catch block inside the loop: logger.warn, and the loop goes on
CatchUses(c) == c

\* The for loop of scanDependencies from its head up to the next await: steps
\* without a truthy uses and uses that fromUsesString rejects (caught, logged)
\* are passed over; the first reference that parses is added and its
\* scanDependencies is called; at the end of the steps the call returns, or
\* the generator's TypeError leaves the function
RECURSIVE RunLoop(_)
RunLoop(c) ==
    LET f == Top(c)
        me == c.actions[f.node]
    IN  IF f.items = <<>>
        THEN IF f.threw
             THEN SetTop(c, [f EXCEPT !.pc = "throw", !.error = TypeError])
             ELSE SetTop(c, [f EXCEPT !.pc = "return", !.ret = me.dependencies])
        ELSE LET uses == UsesOf(Head(f.items))
                 next == SetTop(c, [f EXCEPT !.items = Tail(f.items)])
             IN  IF ~Truthy(uses) \/ uses.t # "str"
                 THEN RunLoop(next)
                 ELSE LET r == FromUsesString(c.actions, uses.s)
                      IN  IF r.threw
                          THEN RunLoop(CatchUses(next))
                          ELSE ScanDependencies(
                                   SetTop([c EXCEPT !.actions =
                                              [r.actions EXCEPT ![f.node].dependencies =
                                                  AddDependency(@, r.node)]],
                                          [f EXCEPT !.items = Tail(f.items), !.pc = "child"]),
                                   r.node, f.maxDepth, f.currentDepth + 1)

\* scanDependencies resumed after await this.getActionYaml()
ScanResumeYaml(c) ==
    LET f == Top(c)
        actionYaml == c.actions[f.node].actionYaml
    IN  IF ~Truthy(actionYaml)
        THEN SetTop(c, [f EXCEPT !.pc = "return", !.ret = c.actions[f.node].dependencies])
        ELSE LET st == ActionSteps(actionYaml)
             IN  RunLoop(SetTop(c, [f EXCEPT !.items = st.items, !.threw = st.threw]))

\* scanDependencies resumed after await dependencyAction.scanDependencies():
\* the nested dependencies are added, or the catch block logs the error
ScanResumeChild(c) ==
    LET child == Top(c)
        popped == Pop(c)
        f == Top(popped)
    IN  RunLoop(IF child.pc = "return"
                THEN [popped EXCEPT !.actions[f.node].dependencies = AddNested(@, child.ret)]
                ELSE popped)

----------------------------------------------------------------------------
(* scanner.mjs: RecursiveActionScanner *)

\* constructor: this.maxDepth = options.maxDepth || 5
ScannerMaxDepth(options) ==
    IF Truthy(options.maxDepth) THEN options.maxDepth.n ELSE DefaultMaxDepth

\* the entry of a dependency in the report
DepEntry(a) ==
    [fullName |-> FullName(a), url |-> Url(a), owner |-> a.owner, repo |-> a.repo,
     ref |-> a.ref, subPath |-> a.subPath]

UniqueEntry(a, isRoot) ==
    [fullName |-> FullName(a), url |-> Url(a), owner |-> a.owner, repo |-> a.repo,
     ref |-> a.ref, subPath |-> a.subPath, isRootAction |-> isRoot]

\* result.dependencies.forEach(dep => uniqueActions.add(dep.fullName))
RECURSIVE AddFullNames(_, _, _)
AddFullNames(acts, names, deps) ==
    IF deps = <<>> THEN names
    ELSE AddFullNames(acts, SetAdd(names, FullName(acts[Head(deps)])), Tail(deps))

\* countUniqueActions: the size of the set of full names
RECURSIVE UniqueNames(_, _, _)
UniqueNames(acts, results, names) ==
    IF results = <<>> THEN names
    ELSE LET result == Head(results).value
         IN  UniqueNames(acts, Tail(results),
                 IF result.action # 0
                 THEN AddFullNames(acts, SetAdd(names, FullName(acts[result.action])),
                                   result.dependencies)
                 ELSE names)

CountUniqueActions(acts, results) == Len(UniqueNames(acts, results, <<>>))

\* the forEach of getAllUniqueActions: set only when the name is not yet a key
RECURSIVE AddUniqueDeps(_, _, _)
AddUniqueDeps(acts, unique, deps) ==
    IF deps = <<>> THEN unique
    ELSE LET dep == acts[Head(deps)]
         IN  AddUniqueDeps(acts,
                 IF MapHas(unique, FullName(dep)) THEN unique
                 ELSE MapSet(unique, FullName(dep), UniqueEntry(dep, FALSE)),
                 Tail(deps))

\* a root entry that is set only when the name is not yet a key
SetRootIfNew(acts, unique, node) ==
    IF MapHas(unique, FullName(acts[node])) THEN unique
    ELSE MapSet(unique, FullName(acts[node]), UniqueEntry(acts[node], TRUE))

\* uniqueActions.set(result.action.fullName, {..., isRootAction: true})
SetRoot(acts, unique, node) ==
    MapSet(unique, FullName(acts[node]), UniqueEntry(acts[node], TRUE))

RECURSIVE UniqueMap(_, _, _)
UniqueMap(acts, results, unique) ==
    IF results = <<>> THEN unique
    ELSE LET result == Head(results).value
         IN  UniqueMap(acts, Tail(results),
                 IF result.action # 0
                 THEN AddUniqueDeps(acts, SetRoot(acts, unique, result.action),
                                    result.dependencies)
                 ELSE unique)

\* getAllUniqueActions: Array.from(uniqueActions.values())
GetAllUniqueActions(acts, results) ==
    LET unique == UniqueMap(acts, results, <<>>)
    IN  [i \in 1..Len(unique) |-> unique[i].value]

\* one element of report.rootActions
RootEntry(acts, entry) ==
    [reference |-> entry.key,
     success |-> ~Truthy(entry.value.error),
     error |-> entry.value.error,
     totalDependencies |-> entry.value.totalDependencies,
     dependencies |-> [k \in 1..Len(entry.value.dependencies) |->
                          DepEntry(acts[entry.value.dependencies[k]])]]

\* generateReport (without the timestamp)
GenerateReport(acts, results, maxDepth) ==
    [summary |-> [totalRootActions |-> Len(results),
                  totalUniqueActions |-> CountUniqueActions(acts, results),
                  maxDepthUsed |-> maxDepth],
     rootActions |-> [i \in 1..Len(results) |-> RootEntry(acts, results[i])],
     allUniqueActions |-> GetAllUniqueActions(acts, results)]

NoReport == [t |-> "undefined"]

\* a result that records no dependency
SucceededEmpty(node, dependencies) ==
    [action |-> node, dependencies |-> <<>>, error |-> Undefined, totalDependencies |-> 0]

\* results.set(actionRef, {action, dependencies, totalDependencies})
Succeeded(node, dependencies) ==
    [action |-> node, dependencies |-> dependencies, error |-> Undefined,
     totalDependencies |-> Len(dependencies)]

\* a catch block that records no error
FailedSilently(message) ==
    [action |-> 0, dependencies |-> <<>>, error |-> Undefined, totalDependencies |-> 0]

\* results.set(actionRef, {action: null, dependencies: [], error, totalDependencies: 0})
Failed(message) ==
    [action |-> 0, dependencies |-> <<>>, error |-> Str(message), totalDependencies |-> 0]

\* the catch block of scanActionList: logger.error, then results.set
CatchRoot(k, actionRef, message) ==
    [k EXCEPT !.errorLog = Append(@, actionRef),
              !.results = MapSet(@, actionRef, Failed(message))]

\* an iterator that passes over every second reference
SkipIteration(i) == i + 2

\* the for-of statement of scanActionList moves on to the next reference
NextIteration(i) == i + 1

\* The for loop of scanActionList from the head of iteration task.i up to
\* the next await: a reference that fromUsesString rejects is recorded as
\* failed and the loop goes on; the first that parses has its
\* scanDependencies called; after the last reference the report is built
RECURSIVE RunRoots(_)
RunRoots(c) ==
    LET k == c.task
    IN  IF k.i > Len(k.refs)
        THEN [c EXCEPT !.task.pc = "done",
                       !.task.report = GenerateReport(c.actions, k.results, k.maxDepth)]
        ELSE LET r == FromUsesString(c.actions, k.refs[k.i])
             IN  IF r.threw
                 THEN RunRoots([c EXCEPT !.task = [CatchRoot(k, k.refs[k.i], r.message)
                                                      EXCEPT !.i = NextIteration(k.i)]])
                 ELSE ScanDependencies([c EXCEPT !.actions = r.actions],
                                       r.node, k.maxDepth, 0)

\* scanActionList resumed after await action.scanDependencies(this.maxDepth)
ScanListResume(c) ==
    LET f == Top(c)
        k == c.task
        actionRef == k.refs[k.i]
        popped == Pop(c).task
        recorded == IF f.pc = "return"
                    THEN [popped EXCEPT !.results =
                             MapSet(@, actionRef, Succeeded(f.node, f.ret))]
                    ELSE CatchRoot(popped, actionRef, f.error)
    IN  RunRoots([c EXCEPT !.task = [recorded EXCEPT !.i = NextIteration(k.i)]])

\* new RecursiveActionScanner(options).scanActionList(actionReferences), up to
\* its first await
ScanActionList(acts, options, actionReferences) ==
    LET maxDepth == ScannerMaxDepth(options)
        k == [options |-> options, refs |-> actionReferences, maxDepth |-> maxDepth,
              i |-> 1, results |-> <<>>, stack |-> <<>>, pc |-> "scanning",
              report |-> NoReport, fetchLog |-> <<>>, errorLog |-> <<>>]
    IN  IF Len(actionReferences) = 0
        THEN [actions |-> acts,
              task |-> [k EXCEPT !.pc = "done",
                                 !.report = GenerateReport(acts, <<>>, maxDepth)]]
        ELSE RunRoots([actions |-> acts, task |-> k])

----------------------------------------------------------------------------
(* Inputs: reference strings, repository contents, scanner options *)

RefA == <<"a", "/", "x", "@", "1">>
RefB == <<"b", "/", "x", "@", "1">>
RefC == <<"c", "/", "x", "@", "1">>
RefBad == <<"n", "o", "t", "-", "a", "-", "r", "e", "f">>

SeqsUpTo(S, n) == UNION {[1..k -> S] : k \in 0..n}

\* the identity a reference string names
IdOf(s) ==
    LET m == RegexMatch(s)
    IN  [owner |-> m.org, repo |-> m.action, ref |-> m.ref,
         subPath |-> IF m.subPath = Undefined THEN <<>> ELSE m.subPath.s]

UsesSteps(u) == [i \in 1..Len(u) |-> Step(Str(u[i]))]

\* a composite action: runs.steps
RunsDoc(u) == Doc(Undefined, Job(YamlSeq(UsesSteps(u))))

\* a workflow-shaped document: jobs.<id>.steps
JobsDoc(u) == Doc(YamlMap(<<Job(YamlSeq(UsesSteps(u)))>>), Undefined)

\* a job whose value is null after a well-formed job
NullJobDoc(u) == Doc(YamlMap(<<Job(YamlSeq(UsesSteps(u))), Null>>), Undefined)

\* what getContent answers for action.yml and for action.yaml
AtYml(doc) == <<File(doc), Throws>>
AtYaml(doc) == <<Throws, File(doc)>>
Absent == <<Throws, Throws>>
Directory == <<NotFile, NotFile>>
Unparsable == <<File(ParseError), Throws>>

NoOptions == [maxDepth |-> Undefined]
MaxDepthOption(n) == [maxDepth |-> Num(n)]

----------------------------------------------------------------------------
(* The state machine *)

Cfg(t) == [actions |-> actions, task |-> tasks[t]]

Become(t, c) ==
    /\ actions' = c.actions
    /\ tasks' = [tasks EXCEPT ![t] = c.task]
    /\ UNCHANGED <<manifests, lookups, argv, pr, wf>>

Suspended(t) == tasks[t].pc = "scanning" /\ tasks[t].stack # <<>>

AllDone == \A t \in 1..Len(tasks) : tasks[t].pc = "done"

\* a scanner is constructed and scanActionList is called, after the earlier
\* invocations of the process have completed
StartScan(optionSet, refLists, maxRuns) ==
    /\ Len(tasks) < maxRuns
    /\ AllDone
    /\ \E options \in optionSet, refs \in refLists :
          LET c == ScanActionList(actions, options, refs)
          IN  /\ actions' = c.actions
              /\ tasks' = Append(tasks, c.task)
    /\ UNCHANGED <<manifests, lookups, argv, pr, wf>>

\* a scanner is constructed and scanActionList is called while earlier
\* invocations are still suspended at an await (Promise.all over scans)
StartConcurrently(optionSet, refLists, maxRuns) ==
    /\ Len(tasks) < maxRuns
    /\ \E options \in optionSet, refs \in refLists :
          LET c == ScanActionList(actions, options, refs)
          IN  /\ actions' = c.actions
              /\ tasks' = Append(tasks, c.task)
    /\ UNCHANGED <<manifests, lookups, argv, pr, wf>>

\* a getContent request completes
FetchDone(t) ==
    /\ Suspended(t)
    /\ Top(Cfg(t)).pc = "fetch"
    /\ Become(t, GetActionYamlResume(Cfg(t)))

\* getActionYaml has returned; scanDependencies goes on
YamlDone(t) ==
    /\ Suspended(t)
    /\ Top(Cfg(t)).pc = "yaml"
    /\ Become(t, ScanResumeYaml(Cfg(t)))

\* a nested scanDependencies has returned or thrown; its caller goes on
ChildDone(t) ==
    /\ Suspended(t)
    /\ Len(tasks[t].stack) >= 2
    /\ Top(Cfg(t)).pc \in {"return", "throw"}
    /\ Become(t, ScanResumeChild(Cfg(t)))

\* a root's scanDependencies has returned or thrown; scanActionList goes on
RootDone(t) ==
    /\ Suspended(t)
    /\ Len(tasks[t].stack) = 1
    /\ Top(Cfg(t)).pc \in {"return", "throw"}
    /\ Become(t, ScanListResume(Cfg(t)))

Resume ==
    \E t \in 1..Len(tasks) :
        \/ FetchDone(t)
        \/ YamlDone(t)
        \/ ChildDone(t)
        \/ RootDone(t)

InitWith(worlds) ==
    /\ manifests \in worlds
    /\ actions = <<>>
    /\ tasks = <<>>
    /\ lookups = <<>>
    /\ argv = Undefined
    /\ pr = Undefined
    /\ wf = Undefined

\* the same steps as a single dispatch on the innermost frame: one resumption
\* of the invocation, whichever await it is suspended at
StepTask(c) ==
    LET f == Top(c)
    IN  CASE f.pc = "fetch" -> GetActionYamlResume(c)
          [] f.pc = "yaml" -> ScanResumeYaml(c)
          [] f.pc \in {"return", "throw"} /\ Len(c.task.stack) >= 2 -> ScanResumeChild(c)
          [] OTHER -> ScanListResume(c)

RECURSIVE RunToEnd(_)
RunToEnd(c) == IF c.task.pc = "done" THEN c ELSE RunToEnd(StepTask(c))

\* the report of a scan that runs alone, from the cache contents acts
ReportOf(acts, options, refs) == RunToEnd(ScanActionList(acts, options, refs)).task.report

Ids == {IdOf(RefA), IdOf(RefB), IdOf(RefC)}

----------------------------------------------------------------------------
(* Spec: one process, one scan (the command line).  Actions a and b are    *)
(* absent, broken, or use at most MaxUses of a, b, c, as a composite       *)
(* action, as a workflow-shaped document under the second file name, or    *)
(* with a null job after their steps; c is a leaf.                         *)

Broken == <<NotFile, File(ParseError)>>

UsesLists == SeqsUpTo({RefA, RefB, RefC}, MaxUses)

Manifests ==
    {Absent, Broken, AtYaml(JobsDoc(<<RefC>>))}
        \cup {AtYml(RunsDoc(u)) : u \in UsesLists}
        \cup {AtYml(NullJobDoc(u)) : u \in {<<>>, <<RefC>>}}

LeafManifests == {Absent, AtYml(RunsDoc(<<>>)), AtYml(NullJobDoc(<<>>))}

Worlds == {w \in [Ids -> Manifests \cup LeafManifests] :
              /\ w[IdOf(RefA)] \in Manifests
              /\ w[IdOf(RefB)] \in Manifests
              /\ w[IdOf(RefC)] \in LeafManifests}

RootLists == SeqsUpTo({RefA, RefB, RefBad}, MaxRoots)

Options == {NoOptions, MaxDepthOption(0), MaxDepthOption(1), MaxDepthOption(2)}

Init == InitWith(Worlds)

Next == StartScan(Options, RootLists, 1) \/ Resume

Spec == Init /\ [][Next]_vars

----------------------------------------------------------------------------
(* SpecGraph: one scan of root a over every graph of three composite       *)
(* actions with at most MaxSteps steps each, all manifests present.  Every *)
(* getContent request is answered and every resolved promise is resumed,   *)
(* which is the fairness of the event loop.                                *)

StepLists == SeqsUpTo({RefA, RefB, RefC}, MaxSteps)

GraphWorlds == [Ids -> {AtYml(RunsDoc(u)) : u \in StepLists}]

GraphOptions == {NoOptions, MaxDepthOption(2), MaxDepthOption(3), MaxDepthOption(4)}

InitGraph == InitWith(GraphWorlds)

NextGraph == StartScan(GraphOptions, {<<RefA>>}, 1) \/ Resume

\* the event loop has a continuation to run or a scan to start: the states
\* in which NextGraph is enabled
Runnable == tasks = <<>> \/ \E t \in 1..Len(tasks) : Suspended(t)

\* weak fairness of NextGraph, WF_vars(NextGraph), with ENABLED <<NextGraph>>_vars
\* written out as Runnable: every getContent request is answered (with a
\* document or an error) and the event loop runs every continuation that is
\* ready
SpecGraph ==
    /\ InitGraph
    /\ [][NextGraph]_vars
    /\ ([]<>(~Runnable) \/ []<><<NextGraph>>_vars)

----------------------------------------------------------------------------
(* SpecRuns: one process in which up to MaxRuns scanners are constructed   *)
(* and run one after the other (the library use of the class), over the    *)
(* chains of three composite actions.                                      *)

ChainWorlds == [Ids -> {AtYml(RunsDoc(u)) : u \in SeqsUpTo({RefA, RefB, RefC}, 1)}]

RunOptions == {NoOptions, MaxDepthOption(1), MaxDepthOption(2)}

RunRootLists == {<<RefA>>, <<RefB>>}

InitRuns == InitWith(ChainWorlds)

NextRuns == StartScan(RunOptions, RunRootLists, MaxRuns) \/ Resume

SpecRuns == InitRuns /\ [][NextRuns]_vars

----------------------------------------------------------------------------
(* SpecCache: Action.fromUsesString called on arbitrary strings.  The call *)
(* is synchronous, so concurrent callers are a sequence of calls.          *)

\* owner "/" repo [ "/" subPath ] "@" ref
MakeRef(owner, repo, subPath, ref) ==
    owner \o <<"/">> \o repo \o (IF subPath = <<>> THEN <<>> ELSE <<"/">> \o subPath)
        \o <<"@">> \o ref

\* references that differ from each other in any one of the four fields
Strings ==
    {MakeRef(o, r, p, v) : o \in {<<"a">>, <<"b">>}, r \in {<<"x">>, <<"y">>},
                           p \in {<<>>, <<"s">>}, v \in {<<"1">>, <<"2">>}}
        \cup {RefBad}

Lookup ==
    /\ Len(lookups) < MaxLookups
    /\ \E s \in Strings :
          LET r == FromUsesString(actions, s)
          IN  /\ actions' = r.actions
              /\ lookups' = Append(lookups, [s |-> s, threw |-> r.threw, node |-> r.node])
    /\ UNCHANGED <<manifests, tasks, argv, pr, wf>>

InitCache == InitWith({[id \in Ids |-> Absent]})

NextCache == Lookup

SpecCache == InitCache /\ [][NextCache]_vars

----------------------------------------------------------------------------
(* SpecParse: Action.fromUsesString called on one string of up to MaxLen   *)
(* characters over a letter, "/", "@" and a line feed, and then called     *)
(* again on the fullName of the node it returned.                          *)

Alphabet == {"a", "/", "@", "\n"}

AllStrings == SeqsUpTo(Alphabet, MaxLen)

\* Action.fromUsesString(s), and what the caller saw of it
CallFromUsesString(s) ==
    LET r == FromUsesString(actions, s)
    IN  /\ actions' = r.actions
        /\ lookups' = Append(lookups, [s |-> s, threw |-> r.threw, node |-> r.node])
        /\ UNCHANGED <<manifests, tasks, argv, pr, wf>>

ParseString ==
    /\ lookups = <<>>
    /\ \E s \in AllStrings : CallFromUsesString(s)

\* Action.fromUsesString(action.fullName)
Reparse ==
    /\ Len(lookups) = 1
    /\ ~lookups[1].threw
    /\ CallFromUsesString(FullName(actions[lookups[1].node]))

InitParse == InitWith({[id \in Ids |-> Absent]})

NextParse == ParseString \/ Reparse

SpecParse == InitParse /\ [][NextParse]_vars

----------------------------------------------------------------------------
(* SpecSteps: one scan of root a, whose manifest has up to MaxMixed steps  *)
(* that use b, use c, or carry a uses string that is no reference; b has   *)
(* no manifest, uses c, or has a malformed uses before its use of c.       *)

MixedLists == SeqsUpTo({RefB, RefC, RefBad}, MaxMixed)

StepsWorlds ==
    {[id \in Ids |-> IF id = IdOf(RefA) THEN a ELSE IF id = IdOf(RefB) THEN b ELSE c] :
        a \in {AtYml(RunsDoc(u)) : u \in MixedLists},
        b \in {Absent, AtYml(RunsDoc(<<RefC>>)), AtYml(RunsDoc(<<RefBad, RefC>>))},
        c \in {Absent, AtYml(RunsDoc(<<>>))}}

InitSteps == InitWith(StepsWorlds)

NextSteps == StartScan(RunOptions, {<<RefA>>}, 1) \/ Resume

SpecSteps == InitSteps /\ [][NextSteps]_vars

----------------------------------------------------------------------------
(* SpecReport: one scan whose roots and dependencies are drawn from a/x@1, *)
(* b/x@1, a/x/s@1 (sub-path s at revision 1) and a/x@1/s (no sub-path,     *)
(* revision "1/s").  a uses up to MaxSteps of the other three; b is        *)
(* missing, uses a, or has a null job; a/x/s@1 is missing or uses a/x@1/s. *)

RefS == <<"a", "/", "x", "/", "s", "@", "1">>
RefT == <<"a", "/", "x", "@", "1", "/", "s">>

ReportIds == {IdOf(RefA), IdOf(RefB), IdOf(RefS), IdOf(RefT)}

ReportWorlds ==
    {[id \in ReportIds |-> IF id = IdOf(RefA) THEN a
                           ELSE IF id = IdOf(RefB) THEN b
                           ELSE IF id = IdOf(RefS) THEN p
                           ELSE Absent] :
        a \in {AtYml(RunsDoc(u)) : u \in SeqsUpTo({RefB, RefS, RefT}, MaxSteps)},
        b \in {Absent, AtYml(RunsDoc(<<RefA>>)), AtYml(NullJobDoc(<<>>))},
        p \in {Absent, AtYml(RunsDoc(<<RefT>>))}}

ReportRootLists == SeqsUpTo({RefA, RefB, RefS, RefT}, MaxRoots)

ReportOptions == {NoOptions, MaxDepthOption(1)}

InitReport == InitWith(ReportWorlds)

NextReport == StartScan(ReportOptions, ReportRootLists, 1) \/ Resume

SpecReport == InitReport /\ [][NextReport]_vars

----------------------------------------------------------------------------
(* The manifest graph the repository contents describe, read off the       *)
(* documents themselves: what a scan is expected to find.                  *)

Parsable(s) == RegexMatch(s) # Null

\* the document published for an identity: the first of action.yml and
\* action.yaml that is a file holding YAML; Null when there is none
Published(id) ==
    LET m == IF id \in DOMAIN manifests THEN manifests[id] ELSE Absent
        found == {p \in 1..2 : m[p].t = "file" /\ m[p].yaml # ParseError}
    IN  IF found = {} THEN Null ELSE m[Min(found)].yaml

StepSeqOk(container) == container.t = "map" /\ container.steps.t = "seq"

\* the documented shape: jobs, a mapping of entries with a steps sequence,
\* and/or runs with a steps sequence
WellShaped(doc) ==
    /\ doc.t = "map"
    /\ \/ doc.jobs = Undefined
       \/ /\ doc.jobs.t = "map"
          /\ \A i \in 1..Len(doc.jobs.entries) : StepSeqOk(doc.jobs.entries[i])
    /\ doc.runs = Undefined \/ StepSeqOk(doc.runs)

Available(id) == Published(id) # Null /\ WellShaped(Published(id))

UsesIn(steps) ==
    {steps[i].uses.s : i \in {j \in 1..Len(steps) :
                                 steps[j].t = "map" /\ steps[j].uses.t = "str"}}

\* the uses strings a well-shaped document declares
DeclaredUses(doc) ==
    (IF doc.jobs = Undefined THEN {}
     ELSE UNION {UsesIn(doc.jobs.entries[i].steps.items) : i \in 1..Len(doc.jobs.entries)})
    \cup (IF doc.runs = Undefined THEN {} ELSE UsesIn(doc.runs.steps.items))

\* the identities an action's manifest declares by a parsable reference
Edges(id) ==
    IF Available(id)
    THEN {IdOf(s) : s \in {x \in DeclaredUses(Published(id)) : Parsable(x)}}
    ELSE {}

RECURSIVE Closure(_)
Closure(S) ==
    LET T == S \cup UNION {Edges(x) : x \in S}
    IN  IF T = S THEN S ELSE Closure(T)

\* reachable by one or more uses declarations
Reach(id) == Closure(Edges(id))

Done(t) == tasks[t].pc = "done"

HasEntry(report, ref) ==
    \E i \in 1..Len(report.rootActions) : report.rootActions[i].reference = ref

\* the per-root result a report holds for a raw reference
EntryFor(report, ref) ==
    report.rootActions[CHOOSE i \in 1..Len(report.rootActions) :
                           report.rootActions[i].reference = ref]

EntryId(e) == [owner |-> e.owner, repo |-> e.repo, ref |-> e.ref, subPath |-> e.subPath]

\* the identities in a per-root dependency list
DepIds(entry) == {EntryId(entry.dependencies[i]) : i \in 1..Len(entry.dependencies)}

----------------------------------------------------------------------------
(* C1: on a fresh cache, with every manifest of the root and of what it    *)
(* reaches present and well-shaped, and maxDepth greater than the number   *)
(* of identities reachable from the first root, the dependency list        *)
(* reported for the first root is exactly the set of identities reachable  *)
(* from it by one or more parsable uses declarations, each listed once.    *)

FirstRootCase(k) ==
    /\ k.pc = "done"
    /\ Len(k.refs) > 0
    /\ Parsable(k.refs[1])
    /\ \A id \in {IdOf(k.refs[1])} \cup Reach(IdOf(k.refs[1])) : Available(id)
    /\ k.maxDepth > Cardinality(Reach(IdOf(k.refs[1])))

FirstRootComplete ==
    (tasks # <<>> /\ FirstRootCase(tasks[1])) =>
        LET k == tasks[1]
            entry == EntryFor(k.report, k.refs[1])
        IN  /\ entry.success
            /\ DepIds(entry) = Reach(IdOf(k.refs[1]))
            /\ Len(entry.dependencies) = Cardinality(Reach(IdOf(k.refs[1])))
            /\ entry.totalDependencies = Cardinality(Reach(IdOf(k.refs[1])))

\* a graph with a cycle through the root and a diamond, reported in full
FirstRootCompleteWitness ==
    /\ tasks # <<>>
    /\ FirstRootCase(tasks[1])
    /\ tasks[1].refs[1] = RefA
    /\ tasks[1].maxDepth = 4
    /\ Edges(IdOf(RefA)) = {IdOf(RefB), IdOf(RefC)}
    /\ Edges(IdOf(RefB)) = {IdOf(RefC)}
    /\ Edges(IdOf(RefC)) = {IdOf(RefA)}
    /\ Reach(IdOf(RefA)) = Ids
    /\ DepIds(EntryFor(tasks[1].report, RefA)) = Ids

----------------------------------------------------------------------------
(* C2: within one scan run no getContent request is sent twice for the     *)
(* same identity and file name, whatever the first answer was; and when    *)
(* two roots of the list both declare the same dependency and maxDepth is  *)
(* at least 2, the run fetches that dependency's manifest exactly once.    *)

FetchRounds(k, id) ==
    Cardinality({i \in 1..Len(k.fetchLog) :
                    /\ k.fetchLog[i][2] = 1
                    /\ Identity(actions[k.fetchLog[i][1]]) = id})

SharedDependencyCase(k, r1, r2) ==
    /\ k.pc = "done"
    /\ k.maxDepth >= 2
    /\ r1 # r2
    /\ Parsable(r1) /\ Parsable(r2)
    /\ Available(IdOf(r1)) /\ Available(IdOf(r2))

----------------------------------------------------------------------------
(* C3: every scan terminates, and when a uses b and b uses a the result    *)
(* for root a is a success that holds b in its dependency list (a itself   *)
(* is the root entry).                                                     *)

CycleCase ==
    /\ IdOf(RefB) \in Edges(IdOf(RefA))
    /\ IdOf(RefA) \in Edges(IdOf(RefB))

CycleReported ==
    /\ tasks # <<>>
    /\ Done(1)
    /\ HasEntry(tasks[1].report, RefA)
    /\ (CycleCase /\ tasks[1].maxDepth >= 2) =>
          /\ EntryFor(tasks[1].report, RefA).success
          /\ IdOf(RefB) \in DepIds(EntryFor(tasks[1].report, RefA))
          /\ \E i \in 1..Len(tasks[1].report.allUniqueActions) :
                /\ EntryId(tasks[1].report.allUniqueActions[i]) = IdOf(RefA)
                /\ tasks[1].report.allUniqueActions[i].isRootAction

ScanTerminates == <>CycleReported

\* the two-node cycle itself has been scanned
ScanTerminatesWitness ==
    /\ CycleReported
    /\ Edges(IdOf(RefA)) = {IdOf(RefB)}
    /\ Edges(IdOf(RefB)) = {IdOf(RefA)}
    /\ tasks[1].maxDepth = 2
    /\ DepIds(EntryFor(tasks[1].report, RefA)) = {IdOf(RefA), IdOf(RefB)}

----------------------------------------------------------------------------
(* C4: a scanner configured with maxDepth = 0 sends no getContent request  *)
(* and reports no dependency for any root.                                 *)

DepthZeroExpandsNothing ==
    \A t \in 1..Len(tasks) :
        tasks[t].options = MaxDepthOption(0) =>
            /\ tasks[t].fetchLog = <<>>
            /\ Done(t) =>
                  \A i \in 1..Len(tasks[t].report.rootActions) :
                      /\ tasks[t].report.rootActions[i].dependencies = <<>>
                      /\ tasks[t].report.rootActions[i].totalDependencies = 0

----------------------------------------------------------------------------
(* C5: with maxDepth = 1 the dependency list of every successfully scanned *)
(* root, whose manifest is well-shaped or missing, is exactly the set of   *)
(* identities that manifest declares directly.                             *)

DepthOneDirectOnly ==
    \A t \in 1..Len(tasks) :
        (Done(t) /\ tasks[t].options = MaxDepthOption(1)) =>
            \A i \in 1..Len(tasks[t].report.rootActions) :
                LET e == tasks[t].report.rootActions[i]
                IN  (/\ e.success
                     /\ \/ Available(IdOf(e.reference))
                        \/ Published(IdOf(e.reference)) = Null)
                        => DepIds(e) = Edges(IdOf(e.reference))

----------------------------------------------------------------------------
(* C6: the cache never holds two nodes with the same (owner, repo,         *)
(* subPath, ref); a call of fromUsesString on owner/repo[/subPath]@ref     *)
(* returns a node with exactly these four fields, so two calls return the  *)
(* same node exactly when their four fields agree.                         *)

\* the four fields a reference string was built from
FieldsOf(s) ==
    CHOOSE f \in [owner : {<<"a">>, <<"b">>}, repo : {<<"x">>, <<"y">>},
                  subPath : {<<>>, <<"s">>}, ref : {<<"1">>, <<"2">>}] :
        MakeRef(f.owner, f.repo, f.subPath, f.ref) = s

Returned == {i \in 1..Len(lookups) : ~lookups[i].threw}

OneNodePerIdentity ==
    /\ \A i, j \in 1..Len(actions) :
          Identity(actions[i]) = Identity(actions[j]) => i = j
    /\ \A i \in Returned :
          /\ lookups[i].node \in 1..Len(actions)
          /\ Identity(actions[lookups[i].node]) = FieldsOf(lookups[i].s)
    /\ \A i, j \in Returned :
          (FieldsOf(lookups[i].s) = FieldsOf(lookups[j].s))
              <=> (lookups[i].node = lookups[j].node)

\* a/x@1 twice, then a/x/s@1: the same node twice, then another one
OneNodePerIdentityWitness ==
    /\ Len(lookups) = 3
    /\ lookups[1].s = MakeRef(<<"a">>, <<"x">>, <<>>, <<"1">>)
    /\ lookups[2].s = lookups[1].s
    /\ lookups[3].s = MakeRef(<<"a">>, <<"x">>, <<"s">>, <<"1">>)
    /\ lookups[1].node = lookups[2].node
    /\ lookups[3].node # lookups[1].node
    /\ Len(actions) = 2

----------------------------------------------------------------------------
(* C7: the report of a scan run equals the report of the same scan (same   *)
(* options, same references) run alone on an empty cache, whether or not   *)
(* another run came before it in the process.                              *)

RunsIndependent ==
    \A t \in 1..Len(tasks) :
        Done(t) => tasks[t].report = ReportOf(<<>>, tasks[t].options, tasks[t].refs)

----------------------------------------------------------------------------
(* C8: a root reference that does not parse gets a failed result with the  *)
(* invalid-reference message and no dependencies, and every other root of  *)
(* the list gets the result it gets when the list is scanned without the   *)
(* malformed references.                                                   *)

MalformedRootIsolated ==
    \A t \in 1..Len(tasks) :
        Done(t) =>
            LET k == tasks[t]
                alone == ReportOf(<<>>, k.options, SelectSeq(k.refs, Parsable))
            IN  /\ \A i \in 1..Len(k.refs) :
                      /\ HasEntry(k.report, k.refs[i])
                      /\ IF Parsable(k.refs[i])
                         THEN EntryFor(k.report, k.refs[i]) = EntryFor(alone, k.refs[i])
                         ELSE EntryFor(k.report, k.refs[i]) =
                                  [reference |-> k.refs[i],
                                   success |-> FALSE,
                                   error |-> Str(<<"Invalid action reference: ">>
                                                     \o k.refs[i]),
                                   totalDependencies |-> 0,
                                   dependencies |-> <<>>]
                /\ k.report.allUniqueActions = alone.allUniqueActions

\* the malformed reference first, then root a, which has dependencies
MalformedRootIsolatedWitness ==
    /\ tasks # <<>>
    /\ Done(1)
    /\ tasks[1].refs = <<RefBad, RefA>>
    /\ ~EntryFor(tasks[1].report, RefBad).success
    /\ EntryFor(tasks[1].report, RefA).success
    /\ EntryFor(tasks[1].report, RefA).totalDependencies = 2

----------------------------------------------------------------------------
(* C9: a dependency whose manifest cannot be had (getContent throws, the   *)
(* path is no file, or the file is no YAML, for both file names) is still  *)
(* listed among the dependencies of a root that declares it, has no        *)
(* dependencies of its own, and leaves the root's result a success; its    *)
(* node caches the absence only after both file names were asked for.      *)

Requested(n, path) ==
    \E t \in 1..Len(tasks) : \E i \in 1..Len(tasks[t].fetchLog) :
        tasks[t].fetchLog[i] = <<n, path>>

UnavailableIsLeaf ==
    /\ \A n \in 1..Len(actions) :
          /\ Published(Identity(actions[n])) = Null => actions[n].dependencies = <<>>
          /\ actions[n].actionYaml = Null => Requested(n, 1) /\ Requested(n, 2)
    /\ \A t \in 1..Len(tasks) :
          Done(t) =>
              \A i \in 1..Len(tasks[t].refs) :
                  LET r == tasks[t].refs[i]
                  IN  (Parsable(r) /\ Available(IdOf(r))) =>
                          /\ HasEntry(tasks[t].report, r)
                          /\ \A d \in Edges(IdOf(r)) :
                                Published(d) = Null =>
                                    /\ EntryFor(tasks[t].report, r).success
                                    /\ d \in DepIds(EntryFor(tasks[t].report, r))

\* root a uses b; b's action.yml is a directory and its action.yaml is no YAML
UnavailableIsLeafWitness ==
    /\ tasks # <<>>
    /\ Done(1)
    /\ tasks[1].refs = <<RefA>>
    /\ Edges(IdOf(RefA)) = {IdOf(RefB)}
    /\ manifests[IdOf(RefB)] = Broken
    /\ EntryFor(tasks[1].report, RefA).success
    /\ DepIds(EntryFor(tasks[1].report, RefA)) = {IdOf(RefB)}
    /\ \E n \in 1..Len(actions) :
          /\ Identity(actions[n]) = IdOf(RefB)
          /\ actions[n].actionYaml = Null
          /\ Requested(n, 2)

----------------------------------------------------------------------------
(* C10: scanActionList ends with a report that holds a per-root result for *)
(* every reference of the list, and every reference for which it caught an *)
(* error has a failed per-root result in that report.                      *)

FailuresRecorded ==
    \A t \in 1..Len(tasks) :
        /\ Done(t) \/ Suspended(t)
        /\ Done(t) =>
              /\ \A i \in 1..Len(tasks[t].refs) :
                    HasEntry(tasks[t].report, tasks[t].refs[i])
              /\ \A i \in 1..Len(tasks[t].errorLog) :
                    ~EntryFor(tasks[t].report, tasks[t].errorLog[i]).success

----------------------------------------------------------------------------
(* C11: a uses string that does not parse is passed over: every parsable   *)
(* uses of the same manifest, before and after it, is resolved and added   *)
(* to the node's dependencies, and is expanded when the depth allows.      *)

NodeOf(id) == CHOOSE n \in 1..Len(actions) : Identity(actions[n]) = id

Resolved(id) == \E n \in 1..Len(actions) : Identity(actions[n]) = id

BadUsesSkipped ==
    \A t \in 1..Len(tasks) :
        (Done(t) /\ tasks[t].refs = <<RefA>>) =>
            LET entry == EntryFor(tasks[t].report, RefA)
            IN  /\ entry.success
                /\ \A d \in Edges(IdOf(RefA)) :
                      /\ Resolved(d)
                      /\ d \in DepIds(entry)
                      /\ tasks[t].maxDepth >= 2 =>
                            /\ actions[NodeOf(d)].scanned
                            /\ Edges(d) \subseteq DepIds(entry)

\* a's steps use b, then a string that is no reference, then c; b has a
\* malformed uses before its use of c
BadUsesSkippedWitness ==
    /\ tasks # <<>>
    /\ Done(1)
    /\ tasks[1].maxDepth = 2
    /\ manifests[IdOf(RefA)] = AtYml(RunsDoc(<<RefB, RefBad, RefC>>))
    /\ manifests[IdOf(RefB)] = AtYml(RunsDoc(<<RefBad, RefC>>))
    /\ DepIds(EntryFor(tasks[1].report, RefA)) = {IdOf(RefB), IdOf(RefC)}
    /\ actions[NodeOf(IdOf(RefB))].scanned
    /\ actions[NodeOf(IdOf(RefC))].scanned

----------------------------------------------------------------------------
(* C12: a node whose manifest is a document of another shape than jobs     *)
(* entries with a steps sequence and/or runs.steps (here: a job that is    *)
(* null) has no dependencies, and a root with such a manifest has a        *)
(* successful result with an empty dependency list.                        *)

OddShape(id) == Published(id) # Null /\ ~WellShaped(Published(id))

OddShapeYieldsNothing ==
    /\ \A n \in 1..Len(actions) :
          OddShape(Identity(actions[n])) => actions[n].dependencies = <<>>
    /\ \A t \in 1..Len(tasks) :
          Done(t) =>
              \A i \in 1..Len(tasks[t].refs) :
                  LET r == tasks[t].refs[i]
                  IN  (Parsable(r) /\ OddShape(IdOf(r))) =>
                          /\ HasEntry(tasks[t].report, r)
                          /\ EntryFor(tasks[t].report, r).success
                          /\ EntryFor(tasks[t].report, r).dependencies = <<>>

----------------------------------------------------------------------------
(* C13: the calls of scanDependencies that are in progress are nested with *)
(* currentDepth 0, 1, 2, ... and the run's maxDepth; a call that has       *)
(* marked its node scanned and fetches or walks its manifest has           *)
(* currentDepth < maxDepth, so at most maxDepth such calls are nested.     *)

Expanding(f) == f.pc \in {"fetch", "yaml", "child"}

DepthBounded ==
    \A t \in 1..Len(tasks) :
        LET k == tasks[t]
        IN  /\ \A i \in 1..Len(k.stack) :
                  /\ k.stack[i].currentDepth = i - 1
                  /\ k.stack[i].maxDepth = k.maxDepth
                  /\ Expanding(k.stack[i]) => k.stack[i].currentDepth < k.maxDepth
                  /\ Expanding(k.stack[i]) => actions[k.stack[i].node].scanned
            /\ Cardinality({i \in 1..Len(k.stack) : Expanding(k.stack[i])}) <= k.maxDepth

\* a uses b, b uses c, maxDepth 2: the call for c at depth 2 returns at once
\* and leaves c unexpanded
DepthBoundedWitness ==
    /\ tasks # <<>>
    /\ tasks[1].maxDepth = 2
    /\ Len(tasks[1].stack) = 3
    /\ Expanding(tasks[1].stack[1]) /\ Expanding(tasks[1].stack[2])
    /\ tasks[1].stack[3].pc = "return"
    /\ tasks[1].stack[3].currentDepth = 2
    /\ Identity(actions[tasks[1].stack[3].node]) = IdOf(RefC)
    /\ ~actions[tasks[1].stack[3].node].scanned
    /\ tasks[1].fetchLog = <<<<1, 1>>, <<2, 1>>>>

----------------------------------------------------------------------------
(* What the report's per-root results visit, in order: for each successful *)
(* root its own identity, then the identities of its dependency list.      *)

RECURSIVE Visits(_)
Visits(entries) ==
    IF entries = <<>> THEN <<>>
    ELSE (IF Head(entries).success
          THEN <<IdOf(Head(entries).reference)>>
                   \o [i \in 1..Len(Head(entries).dependencies) |->
                          EntryId(Head(entries).dependencies[i])]
          ELSE <<>>)
         \o Visits(Tail(entries))

FirstPos(seq, x) == Min({i \in 1..Len(seq) : seq[i] = x})

Visited(seq, x) == \E i \in 1..Len(seq) : seq[i] = x

(* C14: in a finished run's report no identity has two entries in          *)
(* allUniqueActions, every entry is an identity the per-root results       *)
(* visit, and the entries stand in the order of their first visit.         *)

UniqueListOrdered ==
    \A t \in 1..Len(tasks) :
        Done(t) =>
            LET list == tasks[t].report.allUniqueActions
                visits == Visits(tasks[t].report.rootActions)
            IN  /\ \A i, j \in 1..Len(list) :
                      i # j => EntryId(list[i]) # EntryId(list[j])
                /\ \A i \in 1..Len(list) : Visited(visits, EntryId(list[i]))
                /\ \A i, j \in 1..Len(list) :
                      i < j => FirstPos(visits, EntryId(list[i]))
                                  < FirstPos(visits, EntryId(list[j]))

----------------------------------------------------------------------------
(* C15: in a finished run's report an entry of allUniqueActions is flagged *)
(* isRootAction exactly when its identity is the one a successful per-root *)
(* result's reference names.                                               *)

IsRootIdentity(report, id) ==
    \E i \in 1..Len(report.rootActions) :
        /\ report.rootActions[i].success
        /\ IdOf(report.rootActions[i].reference) = id

RootFlagExact ==
    \A t \in 1..Len(tasks) :
        Done(t) =>
            \A i \in 1..Len(tasks[t].report.allUniqueActions) :
                tasks[t].report.allUniqueActions[i].isRootAction
                    <=> IsRootIdentity(tasks[t].report,
                                       EntryId(tasks[t].report.allUniqueActions[i]))

\* roots b, a where b uses a: a is met as a dependency of b before it is
\* met as a root, and s is a dependency only
RootFlagExactWitness ==
    /\ tasks # <<>>
    /\ Done(1)
    /\ tasks[1].refs = <<RefB, RefA>>
    /\ Len(tasks[1].report.allUniqueActions) = 3
    /\ EntryId(tasks[1].report.allUniqueActions[1]) = IdOf(RefB)
    /\ EntryId(tasks[1].report.allUniqueActions[2]) = IdOf(RefA)
    /\ EntryId(tasks[1].report.allUniqueActions[3]) = IdOf(RefS)
    /\ tasks[1].report.allUniqueActions[2].isRootAction
    /\ ~tasks[1].report.allUniqueActions[3].isRootAction

----------------------------------------------------------------------------
(* C16: summary.totalUniqueActions of a finished run's report is the       *)
(* number of distinct (owner, repo, subPath, ref) among the successful     *)
(* roots and the dependencies their results list.                          *)

UniqueCountExact ==
    \A t \in 1..Len(tasks) :
        Done(t) =>
            LET visits == Visits(tasks[t].report.rootActions)
            IN  tasks[t].report.summary.totalUniqueActions
                    = Cardinality({visits[i] : i \in 1..Len(visits)})

----------------------------------------------------------------------------
(* C17: the report of a finished run holds one per-root result for each    *)
(* distinct raw reference of the input list, failed roots included, in the *)
(* order in which the references first occur, and summary.totalRootActions *)
(* is the number of these results.                                         *)

OneResultPerReference ==
    \A t \in 1..Len(tasks) :
        Done(t) =>
            LET k == tasks[t]
                roots == k.report.rootActions
            IN  /\ {roots[i].reference : i \in 1..Len(roots)}
                       = {k.refs[i] : i \in 1..Len(k.refs)}
                /\ \A i, j \in 1..Len(roots) :
                      i < j => FirstPos(k.refs, roots[i].reference)
                                  < FirstPos(k.refs, roots[j].reference)
                /\ Len(roots) = Cardinality({k.refs[i] : i \in 1..Len(k.refs)})
                /\ k.report.summary.totalRootActions = Len(roots)

\* the same malformed reference twice: one failed result
OneResultPerReferenceWitness ==
    /\ tasks # <<>>
    /\ Done(1)
    /\ tasks[1].refs = <<RefBad, RefBad>>
    /\ Len(tasks[1].report.rootActions) = 1
    /\ ~tasks[1].report.rootActions[1].success
    /\ tasks[1].report.summary.totalRootActions = 1

----------------------------------------------------------------------------
(* C18: fromUsesString returns a node for exactly the strings that read    *)
(* owner "/" repo [ "/" subPath ] "@" revision, with owner and repo not    *)
(* empty and free of "/" and "@", subPath not empty and free of "@", and   *)
(* revision the non-empty rest; the node has these four fields; for every  *)
(* other string the call throws and the cache stays as it was.             *)

Free(x, chars) == \A k \in 1..Len(x) : x[k] \notin chars

\* the ways to read s in the documented shape (at most one)
ShapeReadings(s) ==
    LET n == Len(s)
        seg(i, j) == SubSeq(s, i, j)
        plain == {[owner |-> seg(1, i - 1), repo |-> seg(i + 1, j - 1),
                   subPath |-> <<>>, ref |-> seg(j + 1, n)] :
                     <<i, j>> \in {x \in (1..n) \X (1..n) :
                                      /\ x[1] < x[2]
                                      /\ s[x[1]] = "/" /\ s[x[2]] = "@"}}
        nested == {[owner |-> seg(1, x[1] - 1), repo |-> seg(x[1] + 1, x[2] - 1),
                    subPath |-> seg(x[2] + 1, x[3] - 1), ref |-> seg(x[3] + 1, n)] :
                      x \in {y \in (1..n) \X (1..n) \X (1..n) :
                                /\ y[1] < y[2] /\ y[2] < y[3]
                                /\ s[y[1]] = "/" /\ s[y[2]] = "/" /\ s[y[3]] = "@"}}
    IN  {f \in plain \cup nested :
            /\ f.owner # <<>> /\ Free(f.owner, {"/", "@"})
            /\ f.repo # <<>> /\ Free(f.repo, {"/", "@"})
            /\ f.ref # <<>>
            /\ Free(f.subPath, {"@"})
            /\ (f \in nested => f.subPath # <<>>)}

AcceptsExactlyShape ==
    Len(lookups) >= 1 =>
        IF ShapeReadings(lookups[1].s) = {}
        THEN lookups[1].threw /\ (Len(lookups) = 1 => actions = <<>>)
        ELSE /\ ~lookups[1].threw
             /\ Identity(actions[lookups[1].node]) \in ShapeReadings(lookups[1].s)

----------------------------------------------------------------------------
(* C19: fullName is owner/repo@ref for a node without subPath and          *)
(* owner/repo/subPath@ref for a node with one.                             *)

SubPathBeforeRevision ==
    \A n \in 1..Len(actions) :
        FullName(actions[n]) =
            actions[n].owner \o <<"/">> \o actions[n].repo
                \o (IF actions[n].subPath = <<>> THEN <<>>
                    ELSE <<"/">> \o actions[n].subPath)
                \o <<"@">> \o actions[n].ref

----------------------------------------------------------------------------
(* C20: fromUsesString applied to the fullName of a node it returned       *)
(* returns that same node, and no two nodes of the cache have the same     *)
(* fullName.                                                               *)

FullNameRoundTrips ==
    /\ Len(lookups) = 2 => ~lookups[2].threw /\ lookups[2].node = lookups[1].node
    /\ \A n, m \in 1..Len(actions) :
          FullName(actions[n]) = FullName(actions[m]) => n = m

----------------------------------------------------------------------------
(* SpecConcurrent: up to MaxRuns scans of one process in flight at once,   *)
(* each started at any moment and resumed in any order, one await at a     *)
(* time, over the chains and cycles of a, b, c.                            *)

ConcurrentOptions == {NoOptions, MaxDepthOption(1)}

InitConcurrent == InitWith(ChainWorlds)

NextConcurrent == StartConcurrently(ConcurrentOptions, RunRootLists, MaxRuns) \/ Resume

SpecConcurrent == InitConcurrent /\ [][NextConcurrent]_vars

\* the getContent requests of all invocations for node n
AllFetches(n) ==
    {<<t, j>> \in (1..Len(tasks)) \X (1..(NumPaths * MaxRuns * 4)) :
        j <= Len(tasks[t].fetchLog) /\ tasks[t].fetchLog[j][1] = n}

\* the calls that are expanding node n: suspended in its fetch, its manifest
\* or one of its children
ExpandingCalls(n) ==
    {<<t, i>> \in (1..Len(tasks)) \X (1..(DefaultMaxDepth + 1)) :
        /\ i <= Len(tasks[t].stack)
        /\ tasks[t].stack[i].node = n
        /\ (tasks[t].stack[i].pc \in {"fetch", "yaml"}
            \/ (i < Len(tasks[t].stack) /\ tasks[t].stack[i].pc = "child"))}

\* C21: however concurrently started calls interleave at their awaits, each
\* node is expanded by at most one call, every file name of its manifest is
\* requested at most once over all invocations, and only by a call that
\* marked the node
SingleExpander ==
    \A n \in 1..Len(actions) :
        /\ Cardinality(ExpandingCalls(n)) <= 1
        /\ \A x \in AllFetches(n), y \in AllFetches(n) :
              tasks[x[1]].fetchLog[x[2]] = tasks[y[1]].fetchLog[y[2]] => x = y
        /\ (AllFetches(n) # {} \/ ExpandingCalls(n) # {}) => actions[n].scanned

\* two invocations are in the same node at once: one is waiting for its
\* manifest, the other has returned from it without a request
SingleExpanderWitness ==
    \E t \in 1..Len(tasks), u \in 1..Len(tasks) :
        /\ t # u
        /\ Suspended(t) /\ Suspended(u)
        /\ Top(Cfg(t)).pc = "fetch"
        /\ Top(Cfg(u)).pc = "return"
        /\ Top(Cfg(u)).node = Top(Cfg(t)).node
        /\ tasks[u].fetchLog = <<>>

\* the cache once the first i references of invocation t have been processed
\* by a scan of a process that has scanned nothing before
CacheAfter(t, i) ==
    RunToEnd(ScanActionList(<<>>, tasks[t].options, SubSeq(tasks[t].refs, 1, i)))

\* the result recorded for the i-th reference when its iteration ends
ResultAt(t, i) ==
    LET results == CacheAfter(t, i).task.results
        at == CHOOSE j \in 1..Len(results) : results[j].key = tasks[t].refs[i]
    IN  results[at].value

\* C22: a root whose result is recorded as a failure leaves the cache and
\* every node (scanned, cached manifest, dependencies) as they were when its
\* iteration began
FailedRootChangesNothing ==
    \A t \in 1..Len(tasks) :
        Done(t) =>
            \A i \in 1..Len(tasks[t].refs) :
                ResultAt(t, i).action = 0 =>
                    CacheAfter(t, i).actions = CacheAfter(t, i - 1).actions

\* every getContent request for node n is rejected (a failed or cancelled
\* request)
FetchRejected(n) == \A path \in 1..NumPaths : GetContent(actions[n], path) = Throws

\* the scanDependencies calls that an error has ended
AbortedCalls ==
    {<<t, i>> \in (1..Len(tasks)) \X (1..(DefaultMaxDepth + 1)) :
        i <= Len(tasks[t].stack) /\ tasks[t].stack[i].pc = "throw"}

\* C23: a node whose expansion was interrupted, by the rejection of its
\* manifest requests or by an error that ended the expanding call, is left
\* with scanned = false, so that a later request expands it again
InterruptedStaysUnexpanded ==
    /\ \A n \in 1..Len(actions) :
          (FetchRejected(n) /\ actions[n].actionYaml = Null) => ~actions[n].scanned
    /\ \A x \in AbortedCalls :
          ~actions[tasks[x[1]].stack[x[2]].node].scanned

\* the position of the first occurrence of a reference in the input
FirstAt(refs, ref) == CHOOSE j \in 1..Len(refs) : refs[j] = ref /\ \A h \in 1..(j - 1) : refs[h] # ref

\* C24: the roots are processed one after the other in input order: while
\* root i is expanded every earlier reference has its result and no later one
\* has, the outermost call is root i's, and only the innermost call of the
\* invocation can be waiting for a manifest, so at most one request is in
\* flight
RootsOneAtATime ==
    \A t \in 1..Len(tasks) :
        LET k == tasks[t]
        IN  /\ \A j \in 1..Len(k.refs) : j < k.i => MapHas(k.results, k.refs[j])
            /\ \A x \in 1..Len(k.results) :
                  /\ \E j \in 1..Len(k.refs) : j < k.i /\ k.refs[j] = k.results[x].key
                  /\ \A y \in 1..Len(k.results) :
                        x < y => FirstAt(k.refs, k.results[x].key) < FirstAt(k.refs, k.results[y].key)
            /\ k.pc = "done" <=> k.i = Len(k.refs) + 1
            /\ k.pc = "done" => k.stack = <<>>
            /\ k.pc = "scanning" =>
                  /\ k.i \in 1..Len(k.refs)
                  /\ k.stack # <<>>
                  /\ k.stack[1].currentDepth = 0
                  /\ Identity(actions[k.stack[1].node]) = IdOf(k.refs[k.i])
            /\ \A i \in 1..Len(k.stack) :
                  IF i < Len(k.stack) THEN k.stack[i].pc = "child"
                  ELSE k.stack[i].pc \in {"fetch", "yaml", "return", "throw"}

\* the second root is waiting for its manifest after the first root's result
\* was recorded
RootsOneAtATimeWitness ==
    \E t \in 1..Len(tasks) :
        /\ Len(tasks[t].refs) = 2
        /\ tasks[t].i = 2
        /\ Len(tasks[t].results) = 1
        /\ tasks[t].results[1].key = tasks[t].refs[1]
        /\ tasks[t].refs[2] # tasks[t].refs[1]
        /\ Len(tasks[t].stack) = 1
        /\ tasks[t].stack[1].pc = "fetch"
        /\ Len(tasks[t].fetchLog) > 1

\* C25: in every step each node keeps every member of its dependency set and
\* a scanned flag that is true stays true
OnlyGrows ==
    [][\A n \in 1..Len(actions) :
          /\ n <= Len(actions')
          /\ \A i \in 1..Len(actions[n].dependencies) :
                \E j \in 1..Len(actions'[n].dependencies) :
                    actions'[n].dependencies[j] = actions[n].dependencies[i]
          /\ actions[n].scanned => actions'[n].scanned]_vars

\* an expanded node holds a direct and a nested dependency while another call
\* is still in progress
OnlyGrowsWitness ==
    \E n \in 1..Len(actions), t \in 1..Len(tasks) :
        /\ actions[n].scanned
        /\ Len(actions[n].dependencies) >= 2
        /\ Suspended(t)
        /\ Len(tasks[t].stack) >= 2

----------------------------------------------------------------------------
(* SpecCli: the command line.  index.mjs declares --max-depth with         *)
(* parseInt as its argument parser and 5 as its default; commander calls   *)
(* the parser with the argument and the option's previous value, here the  *)
(* default.  scan-action then constructs the scanner with the option value *)
(* and scans one reference.                                                *)

Digits == <<"0", "1", "2", "3", "4", "5", "6", "7", "8", "9">>

DigitValue(ch) == (CHOOSE i \in 1..Len(Digits) : Digits[i] = ch) - 1

\* the value of a string of digits in a radix
RECURSIVE ValueIn(_, _)
ValueIn(z, radix) ==
    IF z = <<>> THEN 0
    ELSE ValueIn(SubSeq(z, 1, Len(z) - 1), radix) * radix + DigitValue(z[Len(z)])

\* parseInt(s, radix) on a string of decimal digits: radix 0 means 10, a
\* radix outside 2..36 gives NaN, the longest prefix of digits below the
\* radix is converted, and NaN is returned when that prefix is empty
ParseInt(s, radix) ==
    LET R == IF radix = 0 THEN 10 ELSE radix
        n == Max({k \in 0..Len(s) : \A i \in 1..k : DigitValue(s[i]) < R})
    IN  IF R < 2 \/ R > 36 \/ n = 0 THEN NaN
        ELSE Num(ValueIn(SubSeq(s, 1, n), R))

\* the default of .option('-m, --max-depth <depth>', ..., parseInt, 5)
CliDefaultDepth == 5

\* program.opts().maxDepth: the default, or parseArg(value, previous)
MaxDepthFlag(arg) ==
    IF arg = Undefined THEN Num(CliDefaultDepth) ELSE ParseInt(arg.s, CliDefaultDepth)

\* new RecursiveActionScanner({ maxDepth: options.maxDepth })
CliOptions(arg) == [maxDepth |-> MaxDepthFlag(arg)]

DigitStrings == UNION {[1..k -> {Digits[i] : i \in 1..Len(Digits)}] : k \in 1..MaxDigits}

CliWorlds ==
    {(IdOf(RefA) :> AtYml(RunsDoc(u))) @@ (IdOf(RefB) :> AtYml(RunsDoc(<<RefC>>)))
        @@ (IdOf(RefC) :> AtYml(RunsDoc(<<>>))) : u \in SeqsUpTo({RefA, RefB}, 1)}

InitCli ==
    /\ manifests \in CliWorlds
    /\ actions = <<>>
    /\ tasks = <<>>
    /\ lookups = <<>>
    /\ argv \in {Undefined} \cup {Str(d) : d \in DigitStrings}
    /\ pr = Undefined
    /\ wf = Undefined

\* scan-action --action a/x@1 [--max-depth argv]
NextCli == StartScan({CliOptions(argv)}, {<<RefA>>}, 1) \/ Resume

SpecCli == InitCli /\ [][NextCli]_vars

\* the non-negative decimal integer a string of digits denotes
Decimal(d) == ValueIn(d, 10)

\* the bound the command line asks for
DepthGiven == IF argv = Undefined THEN 5 ELSE Decimal(argv.s)

\* C26: the depth bound of a command-line scan is the decimal integer given
\* to --max-depth, 5 when the option is omitted, and the summary reports the
\* same bound
CliDepthAsGiven ==
    \A t \in 1..Len(tasks) :
        /\ tasks[t].maxDepth = DepthGiven
        /\ Done(t) => tasks[t].report.summary.maxDepthUsed = DepthGiven

----------------------------------------------------------------------------
(* prParser.mjs: PRParser.  A pull request is the answer of               *)
(* pulls.listFiles: per file its name, status and, when GitHub supplies    *)
(* it, the patch text; the diff the patch was made from and the file's     *)
(* content at the head of the pull request are kept with it.  Two          *)
(* versions of parseFromPR are in the sources: src/lib/prParser.mjs, which *)
(* scanner.mjs imports, and the one of src/unnamed/part_002.               *)

LowerCase ==
    {"a", "b", "c", "d", "e", "f", "g", "h", "i", "j", "k", "l", "m",
     "n", "o", "p", "q", "r", "s", "t", "u", "v", "w", "x", "y", "z"}

UpperCase ==
    {"A", "B", "C", "D", "E", "F", "G", "H", "I", "J", "K", "L", "M",
     "N", "O", "P", "Q", "R", "S", "T", "U", "V", "W", "X", "Y", "Z"}

DecimalDigits == {Digits[i] : i \in 1..Len(Digits)}

\* [a-zA-Z0-9_.-]
NameChars == LowerCase \cup UpperCase \cup DecimalDigits \cup {"_", ".", "-"}

\* [a-fA-F0-9]
HexChars == {"a", "b", "c", "d", "e", "f", "A", "B", "C", "D", "E", "F"} \cup DecimalDigits

\* [\w.-]
TagChars == LowerCase \cup UpperCase \cup DecimalDigits \cup {"_", ".", "-"}

WhiteSpace == {" ", "\n", "\t"}

\* {40}
ShaLength == 40

\* the length of the longest run of characters of a class that starts at i
RunLength(s, i, class) ==
    Max({n \in 0..(Len(s) - i + 1) : \A k \in i..(i + n - 1) : s[k] \in class})

\* the revision part of the pattern at position p: 40 hexadecimal characters
\* and, where anyRevision, the alternative [\w.-]+; 0 when it does not match
RevisionLength(s, p, anyRevision) ==
    IF RunLength(s, p, HexChars) >= ShaLength THEN ShaLength
    ELSE IF anyRevision THEN RunLength(s, p, TagChars)
    ELSE 0

\* the end of the match of the action pattern that starts at i, 0 if none
MatchEnd(s, i, anyRevision) ==
    LET a == RunLength(s, i, NameChars)
        b == RunLength(s, i + a + 1, NameChars)
        p == i + a + 1 + b + 1
        r == RevisionLength(s, p, anyRevision)
    IN  IF a = 0 \/ i + a > Len(s) \/ s[i + a] # "/" THEN 0
        ELSE IF b = 0 \/ p - 1 > Len(s) \/ s[p - 1] # "@" THEN 0
        ELSE IF r = 0 THEN 0
        ELSE p + r - 1

\* content.match(actionRegex) with the g flag, from position i on
RECURSIVE MatchAll(_, _, _)
MatchAll(s, i, anyRevision) ==
    IF i > Len(s) THEN <<>>
    ELSE LET e == MatchEnd(s, i, anyRevision)
         IN  IF e = 0 THEN MatchAll(s, i + 1, anyRevision)
             ELSE <<Slice(s, i, e)>> \o MatchAll(s, e + 1, anyRevision)

\* src/lib/prParser.mjs: [...new Set(content.match(actionRegex) || [])]
ExtractActionReferences(content) == SetAddAll(<<>>, MatchAll(content, 1, FALSE))

\* part_002: the pattern also takes tags and branch names
ExtractAnyReferences(content) == SetAddAll(<<>>, MatchAll(content, 1, TRUE))

\* s.split('\n')
RECURSIVE Split(_)
Split(s) ==
    IF \A k \in 1..Len(s) : s[k] # "\n" THEN <<s>>
    ELSE LET at == Min({k \in 1..Len(s) : s[k] = "\n"})
         IN  <<SubSeq(s, 1, at - 1)>> \o Split(SubSeq(s, at + 1, Len(s)))

\* lines.join('\n')
RECURSIVE Join(_)
Join(lines) ==
    IF lines = <<>> THEN <<>>
    ELSE IF Len(lines) = 1 THEN lines[1]
    ELSE lines[1] \o <<"\n">> \o Join(Tail(lines))

StartsWith(s, prefix) == Len(s) >= Len(prefix) /\ SubSeq(s, 1, Len(prefix)) = prefix

IsAddedLine(line) == StartsWith(line, <<"+">>) /\ ~StartsWith(line, <<"+", "+", "+">>)

\* part_002: extractAddedLines(patch)
ExtractAddedLines(patch) ==
    IF ~Truthy(patch) THEN <<>>
    ELSE LET added == SelectSeq(Split(patch.s), IsAddedLine)
         IN  [k \in 1..Len(added) |-> Tail(added[k])]

\* s.trim() is not empty
TrimTruthy(s) == \E k \in 1..Len(s) : s[k] \notin WhiteSpace

EndsWith(s, suffix) ==
    Len(s) >= Len(suffix) /\ SubSeq(s, Len(s) - Len(suffix) + 1, Len(s)) = suffix

\* the filter of getChangedFiles in src/lib/prParser.mjs
IsChangedMarkdown(file) ==
    EndsWith(file.filename, <<".", "m", "d">>) /\ file.status \in {"added", "modified"}

\* getChangedFiles: the files that pass the filter, none when listFiles fails
GetChangedFiles(p) == IF p.listing = "throws" THEN <<>> ELSE SelectSeq(p.files, IsChangedMarkdown)

\* getFileContent(owner, repo, file.filename, file.sha): the content, or null
GetFileContent(file) == IF file.answer = "file" THEN Str(file.content) ELSE Null

\* the for loop of parseFromPR in src/lib/prParser.mjs
RECURSIVE CollectFromContent(_, _)
CollectFromContent(files, refs) ==
    IF files = <<>> THEN refs
    ELSE LET content == GetFileContent(Head(files))
         IN  CollectFromContent(Tail(files),
                 IF Truthy(content)
                 THEN SetAddAll(refs, ExtractActionReferences(content.s))
                 ELSE refs)

\* src/lib/prParser.mjs: parseFromPR
ParseFromPR(p) == CollectFromContent(GetChangedFiles(p), <<>>)

\* the for loop of parseFromPR in part_002, for markdown files
RECURSIVE CollectFromAddedLines(_, _)
CollectFromAddedLines(files, refs) ==
    IF files = <<>> THEN refs
    ELSE LET file == Head(files)
             addedContent == Join(ExtractAddedLines(file.patch))
             content == GetFileContent(file)
         IN  CollectFromAddedLines(Tail(files),
                 IF Truthy(file.patch)
                 THEN IF TrimTruthy(addedContent)
                      THEN SetAddAll(refs, ExtractAnyReferences(addedContent))
                      ELSE refs
                 ELSE IF Truthy(content)
                      THEN SetAddAll(refs, ExtractAnyReferences(content.s))
                      ELSE refs)

\* part_002: parseFromPR
ParseFromPRAddedLines(p) == CollectFromAddedLines(GetChangedFiles(p), <<>>)

\* scanFromPR: parseFromPR of the PRParser the scanner was built with (the
\* one of src/lib/prParser.mjs or the one of part_002), then scanActionList
\* up to its first await
ScanFromPR ==
    /\ tasks = <<>>
    /\ LET actionReferences == IF pr.parser = "lib" THEN ParseFromPR(pr)
                               ELSE ParseFromPRAddedLines(pr)
           c == ScanActionList(actions, NoOptions, actionReferences)
       IN  /\ actions' = c.actions
           /\ tasks' = Append(tasks, c.task)
    /\ UNCHANGED <<manifests, lookups, argv, pr, wf>>

\* a commit SHA and the references the files mention
Sha(ch) == [k \in 1..ShaLength |-> ch]
RefShaA == <<"a", "/", "x", "@">> \o Sha("a")
RefShaB == <<"b", "/", "x", "@">> \o Sha("b")
RefTag == <<"c", "/", "x", "@", "v", "1">>

\* the lines a file can hold
Texts ==
    {<<"h", "i">>,
     <<"-", " ">> \o RefShaA,
     <<"u", "s", "e", " ">> \o RefShaB \o <<" ", "o", "r", " ">> \o RefTag}

\* the diffs of a file: each line is added, removed or unchanged
Diffs == SeqsUpTo([kind : {"+", "-", " "}, text : Texts], MaxLines)

Keep(line) == line.kind # "-"

\* the content of the file at the head of the pull request
NewContent(diff) ==
    LET kept == SelectSeq(diff, Keep)
    IN  Join([k \in 1..Len(kept) |-> kept[k].text])

\* the patch GitHub makes of a diff: a hunk header and the prefixed lines
HunkHeader == <<"@", "@", " ", "-", "1", " ", "+", "1", " ", "@", "@">>
PatchOf(diff) == Join(<<HunkHeader>> \o [k \in 1..Len(diff) |-> <<diff[k].kind>> \o diff[k].text])

FileNames == {<<"R", ".", "m", "d">>, <<"R", ".", "t", "x", "t">>}

\* the entries pulls.listFiles can answer with
PullFiles ==
    {[filename |-> name, status |-> status, diff |-> diff,
      patch |-> IF withPatch THEN Str(PatchOf(diff)) ELSE Undefined,
      content |-> NewContent(diff), answer |-> answer] :
        name \in FileNames, status \in {"modified", "removed"}, diff \in Diffs \ {<<>>},
        withPatch \in BOOLEAN, answer \in {"file", "throws"}}

PullRequests ==
    {[listing |-> listing, files |-> <<file>>, parser |-> parser] :
        listing \in {"ok", "throws"}, file \in PullFiles, parser \in {"lib", "part_002"}}

\* the action pinned by RefShaA uses a/x@1; every other manifest is absent
InitPR ==
    /\ manifests = (IdOf(RefShaA) :> AtYml(RunsDoc(<<RefA>>)))
    /\ actions = <<>>
    /\ tasks = <<>>
    /\ lookups = <<>>
    /\ argv = Undefined
    /\ pr \in PullRequests
    /\ wf = Undefined

NextPR == ScanFromPR \/ Resume

SpecPR == InitPR /\ [][NextPR]_vars

\* the reference occurs in the text
Occurs(ref, text) ==
    \E i \in 1..Len(text) : i + Len(ref) - 1 <= Len(text) /\ SubSeq(text, i, i + Len(ref) - 1) = ref

\* the reference stands in a line the pull request adds to the file, or
\* anywhere in a file that comes without patch data
AddedByPR(ref, file) ==
    IF file.patch = Undefined THEN Occurs(ref, file.content)
    ELSE \E k \in 1..Len(file.diff) : file.diff[k].kind = "+" /\ Occurs(ref, file.diff[k].text)

\* the roots an invocation was given all come from added lines
OnlyAddedReferences(t) ==
    \A i \in 1..Len(tasks[t].refs) :
        \E k \in 1..Len(pr.files) : AddedByPR(tasks[t].refs[i], pr.files[k])

\* C27: the roots of a pull-request scan are only references standing in
\* lines the pull request adds to a changed file; a file without patch data
\* is scanned in full
ScansOnlyAddedLines ==
    \A t \in 1..Len(tasks) : OnlyAddedReferences(t)

\* the parseFromPR of part_002 alone
AddedLinesParserConforms ==
    \A t \in 1..Len(tasks) : pr.parser = "part_002" => OnlyAddedReferences(t)

\* a node that was requested or is being expanded carries the flag
MarkedFirst ==
    \A t \in 1..Len(tasks) :
        /\ \A j \in 1..Len(tasks[t].fetchLog) : actions[tasks[t].fetchLog[j][1]].scanned
        /\ \A i \in 1..Len(tasks[t].stack) :
              Expanding(tasks[t].stack[i]) => actions[tasks[t].stack[i].node].scanned

\* the step makes invocation t call scanDependencies: the stack grows by a
\* frame, or a frame that had ended is replaced by a new one
CallsIn(t) ==
    /\ tasks'[t] # tasks[t]
    /\ tasks'[t].stack # <<>>
    /\ \/ Len(tasks'[t].stack) = Len(tasks[t].stack) + 1
       \/ /\ Len(tasks'[t].stack) = Len(tasks[t].stack)
          /\ Top(Cfg(t)).pc \in {"return", "throw"}

\* a call that reaches a node already marked as scanned returns the node's
\* dependencies as they are, and the step requests no file, sets no manifest
\* and raises no error
ReentryReturns(t) ==
    LET called == tasks'[t].stack[Len(tasks'[t].stack)]
        n == called.node
    IN  (CallsIn(t) /\ n <= Len(actions) /\ actions[n].scanned) =>
            /\ called.pc = "return"
            /\ called.ret = actions'[n].dependencies
            /\ tasks'[t].fetchLog = tasks[t].fetchLog
            /\ actions'[n].actionYaml = actions[n].actionYaml
            /\ Len(actions') = Len(actions)

\* C28: a node is marked as scanned before its manifest is requested and
\* before any child is expanded, and a call that reaches a marked node, also
\* one in the middle of its own expansion, returns its current dependency set
\* at once without a request, a recursive call or an error
MarkedBeforeExpansion ==
    /\ []MarkedFirst
    /\ [][\A t \in 1..Len(tasks) : ReentryReturns(t)]_vars

\* a call has re-entered a node whose own expansion is in progress below it
\* and holds the node's current dependencies
MarkedBeforeExpansionWitness ==
    \E t \in 1..Len(tasks) :
        LET stack == tasks[t].stack
        IN  /\ Len(stack) >= 2
            /\ stack[Len(stack)].pc = "return"
            /\ stack[Len(stack)].currentDepth < stack[Len(stack)].maxDepth
            /\ stack[Len(stack)].ret = actions[stack[Len(stack)].node].dependencies
            /\ stack[Len(stack)].ret # <<>>
            /\ \E i \in 1..(Len(stack) - 1) :
                  stack[i].node = stack[Len(stack)].node /\ Expanding(stack[i])

\* the members of an insertion-ordered set
Members(seq) == {seq[i] : i \in 1..Len(seq)}

\* a call in progress was made by a caller that already holds its node
ChildAddedFirst ==
    \A t \in 1..Len(tasks) :
        \A i \in 2..Len(tasks[t].stack) :
            tasks[t].stack[i].node \in Members(actions[tasks[t].stack[i - 1].node].dependencies)

\* the step in which a nested call's return reaches its caller adds what the
\* call returned to the caller's node
NestedAdded(t) ==
    LET stack == tasks[t].stack
        child == stack[Len(stack)]
        caller == stack[Len(stack) - 1].node
    IN  (tasks'[t] # tasks[t] /\ Len(stack) >= 2 /\ child.pc = "return") =>
            Members(child.ret) \cup {child.node} \subseteq Members(actions'[caller].dependencies)

\* the step in which the expanding call at stack position i returns: the
\* node holds a node for every parsable uses of its manifest, and the call
\* returns the node's set
DirectAtReturn(t, i) ==
    LET f == tasks[t].stack[i]
        g == tasks'[t].stack[i]
    IN  (/\ f.pc \in {"yaml", "child"}
         /\ Len(tasks'[t].stack) = i
         /\ g.pc = "return") =>
            /\ g.ret = actions'[f.node].dependencies
            /\ \A d \in Edges(Identity(actions[f.node])) :
                  \E n \in Members(g.ret) : Identity(actions'[n]) = d

\* C29: when the expanding call of a node returns, the node's dependency set
\* holds the child of every parsable uses step of its manifest and everything
\* the child's call returned; the child is in the set while its own call is
\* in progress
ExpansionCollects ==
    /\ []ChildAddedFirst
    /\ [][\A t \in 1..Len(tasks) :
             /\ NestedAdded(t)
             /\ \A i \in 1..Len(tasks[t].stack) : DirectAtReturn(t, i)]_vars

\* the root's expanding call has returned a direct child and a nested
\* dependency that its own manifest does not name
ExpansionCollectsWitness ==
    \E t \in 1..Len(tasks) :
        LET stack == tasks[t].stack
        IN  /\ Len(stack) = 1
            /\ stack[1].pc = "return"
            /\ \E x \in Members(stack[1].ret), y \in Members(stack[1].ret) :
                  /\ Identity(actions[x]) \in Edges(Identity(actions[stack[1].node]))
                  /\ Identity(actions[y]) \notin Edges(Identity(actions[stack[1].node]))
                  /\ Identity(actions[y]) \in Edges(Identity(actions[x]))

\* the node has no call suspended in its expansion
Idle(n) ==
    \A t \in 1..Len(tasks) :
        \A i \in 1..Len(tasks[t].stack) :
            tasks[t].stack[i].node = n => ~Expanding(tasks[t].stack[i])

\* a call on a node whose expansion is in progress further down the same
\* call stack is at its return with the dependencies the node has so far
ReentrySeesPartial(t) ==
    LET stack == tasks'[t].stack
        top == stack[Len(stack)]
    IN  (/\ CallsIn(t)
         /\ \E i \in 1..(Len(stack) - 1) : stack[i].node = top.node /\ Expanding(stack[i])) =>
            /\ top.pc = "return"
            /\ top.ret = actions'[top.node].dependencies

\* the dependency set of an expanded node with no expansion in progress
\* stays as it is
Frozen(n) == (actions[n].scanned /\ Idle(n)) => actions'[n].dependencies = actions[n].dependencies

\* a successful root's result is the dependency set its node holds
RootsReportNodeSets ==
    \A t \in 1..Len(tasks) :
        Done(t) =>
            \A x \in 1..Len(tasks[t].results) :
                LET result == tasks[t].results[x].value
                IN  result.action # 0 =>
                        result.dependencies = actions[result.action].dependencies

\* C30: a node re-entered during its own expansion returns only what it has
\* accumulated so far; the set a node is left with when its expansion ends
\* is never completed later in the run, and a later root that names the node
\* reports that set
PartialSetsStay ==
    /\ []RootsReportNodeSets
    /\ [][/\ \A t \in 1..Len(tasks) : ReentrySeesPartial(t)
          /\ \A n \in 1..Len(actions) : Frozen(n)]_vars

\* roots a, b at the default depth: b lies on a cycle through a, was
\* expanded as a's dependency, and its result omits an identity that is
\* reachable from it and that a's result lists
PartialSetsStayWitness ==
    \E t \in 1..Len(tasks) :
        /\ Done(t)
        /\ tasks[t].refs = <<RefA, RefB>>
        /\ tasks[t].options = NoOptions
        /\ EntryFor(tasks[t].report, RefA).success
        /\ EntryFor(tasks[t].report, RefB).success
        /\ IdOf(RefB) \in Reach(IdOf(RefB))
        /\ \E id \in Reach(IdOf(RefB)) :
              /\ id \notin DepIds(EntryFor(tasks[t].report, RefB))
              /\ id \in DepIds(EntryFor(tasks[t].report, RefA))

----------------------------------------------------------------------------
(* part_001: WorkflowParser, the scan of local composite actions.  The     *)
(* repository holds, for a local action path, a file under action.yml or   *)
(* action.yaml or none; a file is the list of its uses values, as          *)
(* extractActionsFromWorkflow finds them.  A request for a file that       *)
(* exists can still fail (any error but 404).  wf is the state of one      *)
(* scanRepositoryWorkflows call from its second pass on.                   *)

LocalP == <<".", "/", "p">>
LocalQ == <<".", "/", "q">>
LocalR == <<".", ".", "/", "r">>

\* action.startsWith('./') || action.startsWith('../')
IsLocal(action) == StartsWith(action, <<".", "/">>) \/ StartsWith(action, <<".", ".", "/">>)

\* a step that marks nothing
MarkNothing(scannedLocalActions, name) == scannedLocalActions

\* scannedLocalActions.add(localAction.name)
MarkLocal(scannedLocalActions, name) == SetAdd(scannedLocalActions, name)

\* the for loop over localActionFiles (lines 199-228)
RECURSIVE ProcessLocalFiles(_, _)
ProcessLocalFiles(w, localActionFiles) ==
    IF localActionFiles = <<>> THEN w
    ELSE LET localAction == Head(localActionFiles)
             found == SetAddAll(<<>>, localAction.content)
             nested == SelectSeq(found, IsLocal)
             external == SelectSeq(found, LAMBDA a : ~IsLocal(a))
         IN  ProcessLocalFiles(
                 [w EXCEPT !.scannedLocalActions = MarkLocal(@, localAction.name),
                           !.newLocalActions = SetAddAll(@, nested),
                           !.allExternalActions = SetAddAll(@, external)],
                 Tail(localActionFiles))

\* scanLocalActionsRecursively(repoUrl, localActionPaths, ...) up to the
\* first request of fetchLocalActions, or to its return
ScanLocalActionsRecursively(w, localActionPaths, depth) ==
    LET pathsToScan == SelectSeq(localActionPaths,
                                 LAMBDA path : path \notin Members(w.scannedLocalActions))
    IN  IF localActionPaths = <<>> \/ pathsToScan = <<>>
        THEN [w EXCEPT !.pc = "done"]
        ELSE [w EXCEPT !.pc = "fetching", !.depth = depth,
                       !.pathsToScan = pathsToScan, !.at = 1, !.name = 1,
                       !.localActionFiles = <<>>, !.newLocalActions = <<>>,
                       !.requests = Append(@, <<pathsToScan[1], 1>>)]

\* fetchLocalActions has returned: the files are processed and the newly
\* found local actions are scanned one level deeper
LocalFilesFetched(w) ==
    LET v == ProcessLocalFiles(w, w.localActionFiles)
    IN  IF v.newLocalActions # <<>>
        THEN ScanLocalActionsRecursively(v, v.newLocalActions, w.depth + 1)
        ELSE [v EXCEPT !.pc = "done"]

\* fetchLocalActions goes on to its next request, or returns
NextLocalRequest(w, at, name) ==
    IF at > Len(w.pathsToScan)
    THEN LocalFilesFetched(w)
    ELSE [w EXCEPT !.at = at, !.name = name,
                   !.requests = Append(@, <<w.pathsToScan[at], name>>)]

\* fetchLocalActions resumed after a getContent request: the file is pushed
\* and the other name is not tried, or the next name or path follows
FetchLocalResume(w, data) ==
    LET actionPath == w.pathsToScan[w.at]
    IN  IF data.t = "file"
        THEN NextLocalRequest(
                 [w EXCEPT !.localActionFiles =
                               Append(@, [name |-> actionPath, content |-> data.yaml]),
                           !.fetched = Append(@, actionPath)],
                 w.at + 1, 1)
        ELSE IF w.name < NumPaths
        THEN NextLocalRequest(w, w.at, w.name + 1)
        ELSE NextLocalRequest(w, w.at + 1, 1)

\* what the repository holds for the three local actions
LocalUses == {<<>>, <<LocalQ>>, <<LocalR>>, <<RefA>>, <<LocalQ, LocalR>>, <<LocalR, LocalQ>>,
              <<RefA, LocalQ>>, <<LocalQ, RefB>>}

LocalWorlds ==
    {(LocalP :> p) @@ (LocalQ :> q) @@ (LocalR :> r) :
        p \in {AtYml(u) : u \in LocalUses},
        q \in {Absent, AtYml(<<LocalP>>), AtYaml(<<LocalR>>), AtYml(<<RefA>>),
               AtYaml(<<LocalP, LocalR>>)},
        r \in {Absent, AtYml(<<>>), AtYaml(<<LocalQ>>), AtYaml(<<LocalR, RefC>>)}}

LocalRoots == {<<LocalP>>, <<LocalQ, LocalP>>}

NoLocalScan ==
    [files |-> <<>>, pc |-> "idle", depth |-> 0, pathsToScan |-> <<>>, at |-> 0, name |-> 0,
     localActionFiles |-> <<>>, newLocalActions |-> <<>>, scannedLocalActions |-> <<>>,
     allExternalActions |-> <<>>, requests |-> <<>>, fetched |-> <<>>]

\* the second pass of scanRepositoryWorkflows: the local actions the
\* workflows name are scanned with a new scanned set
StartLocalScan ==
    /\ wf.pc = "idle"
    /\ \E rootLevelLocalActions \in LocalRoots :
          wf' = ScanLocalActionsRecursively(wf, rootLevelLocalActions, 1)
    /\ UNCHANGED <<manifests, actions, tasks, lookups, argv, pr>>

\* a getContent request of fetchLocalActions completes: with the file, with
\* 404 when there is none, or with another error
LocalFetchDone ==
    /\ wf.pc = "fetching"
    /\ \E data \in {wf.files[wf.pathsToScan[wf.at]][wf.name], Throws} :
          wf' = FetchLocalResume(wf, data)
    /\ UNCHANGED <<manifests, actions, tasks, lookups, argv, pr>>

InitLocal ==
    /\ manifests = <<>>
    /\ actions = <<>>
    /\ tasks = <<>>
    /\ lookups = <<>>
    /\ argv = Undefined
    /\ pr = Undefined
    /\ wf \in {[NoLocalScan EXCEPT !.files = w] : w \in LocalWorlds}

NextLocal == StartLocalScan \/ LocalFetchDone

\* the event loop has a request to complete or the scan to start
RunnableLocal == wf.pc \in {"idle", "fetching"}

SpecLocal ==
    InitLocal /\ [][NextLocal]_vars /\ ([]<>(~RunnableLocal) \/ []<><<NextLocal>>_vars)

\* no local action path was fetched with success twice
FetchedOnce ==
    \A i \in 1..Len(wf.fetched), j \in 1..Len(wf.fetched) :
        wf.fetched[i] = wf.fetched[j] => i = j

\* C31: scanLocalActionsRecursively terminates, also with local actions in
\* a cycle and with paths whose file cannot be fetched, and no path is
\* fetched with success more than once
LocalScanTerminates ==
    /\ <>(wf.pc = "done")
    /\ []FetchedOnce

\* the scan has ended after two local actions that name each other were
\* fetched and a request for a third path failed
LocalScanTerminatesWitness ==
    /\ wf.pc = "done"
    /\ wf.depth >= 2
    /\ \E i \in 1..Len(wf.fetched), j \in 1..Len(wf.fetched) :
          /\ wf.fetched[i] # wf.fetched[j]
          /\ \E nm \in 1..NumPaths :
                /\ wf.files[wf.fetched[i]][nm].t = "file"
                /\ wf.fetched[j] \in Members(wf.files[wf.fetched[i]][nm].yaml)
          /\ \E nm \in 1..NumPaths :
                /\ wf.files[wf.fetched[j]][nm].t = "file"
                /\ wf.fetched[i] \in Members(wf.files[wf.fetched[j]][nm].yaml)
    /\ \E x \in 1..Len(wf.requests) : wf.requests[x][1] \notin Members(wf.fetched)

----------------------------------------------------------------------------
(* The uses declarations written in the manifests, also in a document      *)
(* whose other parts have an odd shape: every steps sequence of a jobs     *)
(* entry or of runs counts.                                                *)

StepsRead(container) == IF StepSeqOk(container) THEN UsesIn(container.steps.items) ELSE {}

WrittenUses(doc) ==
    IF doc.t # "map" THEN {}
    ELSE (IF doc.jobs.t = "map"
          THEN UNION {StepsRead(doc.jobs.entries[i]) : i \in 1..Len(doc.jobs.entries)}
          ELSE {})
         \cup StepsRead(doc.runs)

\* the identities the published manifest of id names in a uses declaration
UsesEdges(id) ==
    IF Published(id) = Null THEN {}
    ELSE {IdOf(s) : s \in {x \in WrittenUses(Published(id)) : Parsable(x)}}

RECURSIVE UsesClosure(_)
UsesClosure(S) ==
    LET T == S \cup UNION {UsesEdges(x) : x \in S}
    IN  IF T = S THEN S ELSE UsesClosure(T)

\* reachable by a path of one or more uses declarations
UsesReach(id) == UsesClosure(UsesEdges(id))

DepNodeIds(n) ==
    {Identity(actions[actions[n].dependencies[i]]) : i \in 1..Len(actions[n].dependencies)}

\* C32: in every reachable state every member of a node's dependency set
\* is reachable from the node by one or more uses declarations, and a node
\* that lies on no cycle of declarations is not a member of its own set
DependenciesSound ==
    \A n \in 1..Len(actions) :
        /\ DepNodeIds(n) \subseteq UsesReach(Identity(actions[n]))
        /\ Identity(actions[n]) \notin UsesReach(Identity(actions[n]))
              => n \notin Members(actions[n].dependencies)

\* a finished scan in which a node on no cycle holds a member that only a
\* path of two or more declarations reaches
DependenciesSoundWitness ==
    /\ tasks # <<>>
    /\ AllDone
    /\ \E n \in 1..Len(actions) :
          /\ Identity(actions[n]) \notin UsesReach(Identity(actions[n]))
          /\ DepNodeIds(n) \ UsesEdges(Identity(actions[n])) # {}

\* the identities a scan of the one root ref reports for it, alone on an
\* empty cache
AloneDepIds(options, ref) == DepIds(EntryFor(ReportOf(<<>>, options, <<ref>>), ref))

\* C33: in a run over several roots on a fresh cache, the dependencies
\* reported for each root are those reported when the root is scanned alone
\* on a fresh cache with the same maxDepth, whatever the order of the roots
RootOrderIndependent ==
    \A t \in 1..Len(tasks) :
        Done(t) =>
            \A i \in 1..Len(tasks[t].refs) :
                DepIds(EntryFor(tasks[t].report, tasks[t].refs[i]))
                    = AloneDepIds(tasks[t].options, tasks[t].refs[i])

----------------------------------------------------------------------------
(* SpecDepth: one scan of root a on an empty cache over four composite     *)
(* actions a, b, c, d that all publish a manifest, in which an action can  *)
(* be met on a longer path before it is met on a shorter one.              *)

RefD == <<"d", "/", "x", "@", "1">>

DepthWorlds ==
    {(IdOf(RefA) :> AtYml(RunsDoc(a))) @@ (IdOf(RefB) :> AtYml(RunsDoc(b)))
        @@ (IdOf(RefC) :> AtYml(RunsDoc(c))) @@ (IdOf(RefD) :> AtYml(RunsDoc(d))) :
        a \in SeqsUpTo({RefB, RefC}, MaxSteps),
        b \in {<<>>, <<RefC>>, <<RefD>>},
        c \in {<<>>, <<RefD>>, <<RefA>>},
        d \in {<<>>, <<RefA>>, <<RefB>>}}

DepthOptions == {MaxDepthOption(2), MaxDepthOption(3)}

InitDepth == InitWith(DepthWorlds)

NextDepth == StartScan(DepthOptions, {<<RefA>>}, 1) \/ Resume

SpecDepth == InitDepth /\ [][NextDepth]_vars

\* the identities a path of 1 to k uses declarations reaches from S
RECURSIVE WithinFrom(_, _)
WithinFrom(S, k) ==
    IF k = 0 THEN {}
    ELSE LET T == UNION {Edges(x) : x \in S}
         IN  T \cup WithinFrom(T, k - 1)

\* C34: on a fresh cache with a single root and all manifests available,
\* every identity that a path of at most maxDepth uses declarations reaches
\* from the root is in the root's dependency list, whatever the order of
\* the steps
DepthComplete ==
    \A t \in 1..Len(tasks) :
        Done(t) =>
            WithinFrom({IdOf(tasks[t].refs[1])}, tasks[t].maxDepth)
                \subseteq DepIds(EntryFor(tasks[t].report, tasks[t].refs[1]))

\* the node has a call suspended inside its expansion
InOwnExpansion(n) ==
    \E t \in 1..Len(tasks) :
        \E i \in 1..Len(tasks[t].stack) :
            tasks[t].stack[i].node = n /\ Expanding(tasks[t].stack[i])

\* a step changes a node's dependency set only by resuming the node's own
\* expanding call
ChangedInOwnCall(n) ==
    actions'[n].dependencies # actions[n].dependencies => InOwnExpansion(n)

\* every result recorded so far holds the set its node holds now
RecordedStaysEqual ==
    \A t \in 1..Len(tasks) :
        \A x \in 1..Len(tasks[t].results) :
            LET result == tasks[t].results[x].value
            IN  result.action # 0 =>
                    result.dependencies = actions[result.action].dependencies

\* C35: a node's dependency set changes only between the start and the
\* return of the node's own expanding call and never after it, so the list
\* recorded for an earlier root equals that node's set while later roots
\* are processed
SetChangesOnlyInOwnCall ==
    /\ []RecordedStaysEqual
    /\ [][\A n \in 1..Len(actions) : ChangedInOwnCall(n)]_vars

\* the second root is being expanded and its call on the first root, which
\* its manifest names, has returned the list recorded for the first root
SetChangesOnlyInOwnCallWitness ==
    \E t \in 1..Len(tasks) :
        /\ tasks[t].pc = "scanning"
        /\ tasks[t].i = 2
        /\ Len(tasks[t].results) = 1
        /\ tasks[t].results[1].value.dependencies # <<>>
        /\ Len(tasks[t].stack) = 2
        /\ tasks[t].stack[1].pc = "child"
        /\ tasks[t].stack[2].pc = "return"
        /\ tasks[t].stack[2].node = tasks[t].results[1].value.action
        /\ tasks[t].stack[2].ret = tasks[t].results[1].value.dependencies

\* a node that is not marked as scanned has no dependency, no cached
\* manifest outcome and no request made for it
UnexpandedIsBlank ==
    \A n \in 1..Len(actions) :
        ~actions[n].scanned =>
            /\ actions[n].dependencies = <<>>
            /\ actions[n].actionYaml = Undefined
            /\ \A t \in 1..Len(tasks) :
                  \A j \in 1..Len(tasks[t].fetchLog) : tasks[t].fetchLog[j][1] # n

\* a call that reaches an unmarked node at currentDepth >= maxDepth returns
\* nothing and leaves it unmarked; one at a smaller depth marks it and
\* requests its manifest
UnmarkedCall(t) ==
    LET called == tasks'[t].stack[Len(tasks'[t].stack)]
        n == called.node
    IN  (CallsIn(t) /\ (n > Len(actions) \/ ~actions[n].scanned)) =>
            IF called.currentDepth >= called.maxDepth
            THEN /\ called.pc = "return"
                 /\ called.ret = <<>>
                 /\ ~actions'[n].scanned
                 /\ tasks'[t].fetchLog = tasks[t].fetchLog
            ELSE /\ called.pc = "fetch"
                 /\ actions'[n].scanned
                 /\ tasks'[t].fetchLog = Append(tasks[t].fetchLog, <<n, 1>>)

\* C36: a node whose scanned flag is false has an empty dependency set and
\* no cached manifest outcome; a node reached only at currentDepth >=
\* maxDepth stays unexpanded, and a later call at a smaller depth expands it
UnexpandedStaysFresh ==
    /\ []UnexpandedIsBlank
    /\ [][\A t \in 1..Len(tasks) : UnmarkedCall(t)]_vars

\* a node that the first root's scan met at the depth limit, and recorded
\* as a dependency without expanding it, is being expanded as the second root
UnexpandedStaysFreshWitness ==
    \E t \in 1..Len(tasks) :
        /\ tasks[t].pc = "scanning"
        /\ Len(tasks[t].results) = 1
        /\ Len(tasks[t].stack) = 1
        /\ tasks[t].stack[1].pc = "fetch"
        /\ tasks[t].stack[1].node \in Members(tasks[t].results[1].value.dependencies)
        /\ tasks[t].fetchLog = <<<<tasks[t].results[1].value.action, 1>>,
                                 <<tasks[t].stack[1].node, 1>>>>

\* the counts of a report agree with its lists
CountsAgree(report) ==
    /\ report.summary.totalUniqueActions = Len(report.allUniqueActions)
    /\ \A i \in 1..Len(report.rootActions) :
          report.rootActions[i].totalDependencies = Len(report.rootActions[i].dependencies)

\* the expansion of the node ended with an error: the steps of its manifest
\* cannot be read to the end
ExpansionThrew(n) ==
    /\ actions[n].scanned
    /\ Truthy(actions[n].actionYaml)
    /\ ActionSteps(actions[n].actionYaml).threw

\* the root reference was parsed and its node expanded without an error
RootWentWell(ref) == Parsable(ref) /\ ~ExpansionThrew(NodeOf(IdOf(ref)))

\* a failed root has no dependency and its reference is no root action of
\* the global list
FailedRootIsEmpty(report, entry) ==
    /\ entry.dependencies = <<>>
    /\ Parsable(entry.reference) =>
          \A j \in 1..Len(report.allUniqueActions) :
              EntryId(report.allUniqueActions[j]) = IdOf(entry.reference)
                  => ~report.allUniqueActions[j].isRootAction

\* C37: every report is consistent: the unique-action count is the length
\* of the global list, each per-root count is the length of that root's
\* list, a result is marked successful exactly when its root was parsed and
\* expanded without an error, and a failed root has an empty list
ReportConsistent ==
    \A t \in 1..Len(tasks) :
        Done(t) =>
            /\ CountsAgree(tasks[t].report)
            /\ \A i \in 1..Len(tasks[t].report.rootActions) :
                  LET entry == tasks[t].report.rootActions[i]
                  IN  /\ entry.success <=> RootWentWell(entry.reference)
                      /\ ~entry.success => FailedRootIsEmpty(tasks[t].report, entry)

\* the reports invocation t can give when the invocations do not overlap:
\* it runs first on the empty cache, or after another invocation has run
\* to its end
SerialReports(t) ==
    {ReportOf(<<>>, tasks[t].options, tasks[t].refs)}
    \cup {ReportOf(RunToEnd(ScanActionList(<<>>, tasks[u].options, tasks[u].refs)).actions,
                   tasks[t].options, tasks[t].refs) : u \in (1..Len(tasks)) \ {t}}

\* C38: when two scanActionList calls overlap and both include the same
\* root, each call reports for that root the dependencies a run that does
\* not overlap would report
OverlapReportsAsSerial ==
    \A t \in 1..Len(tasks), u \in 1..Len(tasks) :
        (t # u /\ Done(t) /\ Done(u)) =>
            \A i \in 1..Len(tasks[t].refs) :
                tasks[t].refs[i] \in Members(tasks[u].refs) =>
                    \E R \in SerialReports(t) :
                        DepIds(EntryFor(tasks[t].report, tasks[t].refs[i]))
                            = DepIds(EntryFor(R, tasks[t].refs[i]))
====
